---- MODULE Spec2Model ----
(***************************************************************************)
(* AgentBloom: a state-machine model of the data layer (database schema    *)
(* and the Supabase service wrappers), the in-memory user store and its    *)
(* UI handlers, the text-completion wrappers and the analytics functions.  *)
(*                                                                         *)
(* Each subsystem has its own next-state relation and specification; the   *)
(* variables of the other subsystems stay at their initial values.         *)
(***************************************************************************)
EXTENDS Integers, Sequences, FiniteSets, TLC

VARIABLES
    dbUsers,        \* table users: user_id -> row
    dbAgents,       \* table agents: set of agent_id (rows present)
    dbBounties,     \* table bounties: bounty_id -> row
    dbCreditTransactions,   \* table credit_transactions: transaction_id -> row
    claimCalls,     \* bountyService.claimBounty calls in flight, per client
    userSessions,   \* what each client last got from getUser / createUser
    now,            \* Date.now(), in clock ticks
    dbAgentExecutions,  \* table agent_executions: the rows, in insertion order
    dbAgentMetrics, \* agents.performance_metrics: agent_id -> metrics
    executionInserts,   \* the INSERTs into agent_executions issued so far
    subscription,   \* one realtime subscription: table, refetches, callback
    roi64,          \* what calculateStakingROI last returned, in doubles
    frameCall,      \* the last FarcasterService call and what it returned
    frameContainer, \* FrameContainer: its props, its state, its last click
    dashboard,      \* AnalyticsDashboard: its state and its loads in flight
    isConnected,    \* useAccount().isConnected
    address,        \* useAccount().address
    user,           \* UserProvider state: the user record, or NULL
    agents,         \* UserProvider state: the agents array
    bounties,       \* UserProvider state: the bounties array
    effectDue,      \* the provider's effect has a changed dependency to run for
    currentView,    \* App state: the view that is mounted
    formFilled,     \* AgentLaunch state: name, description, promptTemplate are set
    launchMethod,   \* AgentLaunch state
    isLaunching,    \* AgentLaunch state
    launchIsStaking,    \* AgentLaunch state isStaking
    isStaking,      \* CreditManager state
    isPurchasing,   \* CreditManager state
    pending,        \* handlers awaiting createSession, with what they closed over
    completed,      \* the balance-changing handlers that ran to their end, in order
    opsStarted,     \* number of handlers started
    walletEvents,   \* number of wallet events
    aiCall,         \* the OpenAIService call: its arguments, stage and outcome
    mAgents,        \* getUserPerformanceMetrics argument agents
    mBounties,      \* getUserPerformanceMetrics argument bounties
    mTransactions,  \* getUserPerformanceMetrics argument transactions
    performanceMetrics, \* what getUserPerformanceMetrics returned
    roi             \* the last calculateStakingROI call and what it returned

dbVars == <<dbUsers, dbAgents, dbBounties, dbCreditTransactions, claimCalls,
            userSessions, now>>

execVars == <<dbAgentExecutions, dbAgentMetrics, executionInserts>>

subVars == <<subscription>>

doubleVars == <<roi64>>

frameVars == <<frameCall, frameContainer>>

dashVars == <<dashboard>>

storeVars == <<isConnected, address, user, agents, bounties, effectDue,
               currentView, formFilled, launchMethod, isLaunching,
               launchIsStaking, isStaking, isPurchasing, pending, completed,
               opsStarted, walletEvents>>

aiVars == <<aiCall>>

analyticsVars == <<mAgents, mBounties, mTransactions, performanceMetrics, roi>>

\* the variables outside the database and its clients
notDB == <<storeVars, aiVars, analyticsVars, execVars, subVars, doubleVars,
        frameVars, dashVars>>

\* the variables outside the store and its components
notStore == <<dbVars, aiVars, analyticsVars, execVars, subVars, doubleVars,
        frameVars, dashVars>>

\* the variables outside the text-completion wrappers
notAI == <<dbVars, storeVars, analyticsVars, execVars, subVars, doubleVars,
        frameVars, dashVars>>

\* the variables outside the analytics service
notAnalytics == <<dbVars, storeVars, aiVars, execVars, subVars, doubleVars,
        frameVars, dashVars>>

\* the variables outside the table agent_executions and its trigger
notExec == <<dbVars, storeVars, aiVars, analyticsVars, subVars, doubleVars,
        frameVars, dashVars>>

\* the variables outside the realtime subscriptions
notSub == <<dbVars, storeVars, aiVars, analyticsVars, execVars, doubleVars,
        frameVars, dashVars>>

\* the variables outside the double arithmetic of calculateStakingROI
notDouble == <<dbVars, storeVars, aiVars, analyticsVars, execVars, subVars,
        frameVars, dashVars>>

\* the variables outside the frames
notFrame == <<dbVars, storeVars, aiVars, analyticsVars, execVars, subVars,
             doubleVars, dashVars>>

\* the variables outside the analytics dashboard
notDash == <<dbVars, storeVars, aiVars, analyticsVars, execVars, subVars,
            doubleVars, frameVars>>

vars == <<dbVars, storeVars, aiVars, analyticsVars, execVars, subVars,
         doubleVars, frameVars, dashVars>>

NULL == "NULL"

(***************************************************************************)
(* DATABASE: schema.sql                                                    *)
(***************************************************************************)

\* The role that bypasses row level security (the table owner, as the
\* schema's own sample INSERTs; Supabase's service key).
ServiceRole == "service_role"

\* INSERT INTO users ... (sample data)
SampleUsers ==
    [u \in {"user_sample_1", "user_sample_2"} |->
        IF u = "user_sample_1"
        THEN [wallet_address |-> "0x1234", credit_balance |-> 150,
              staked_amount |-> 25000000]
        ELSE [wallet_address |-> "0x0987", credit_balance |-> 200,
              staked_amount |-> 50000000]]

\* INSERT INTO agents ... (sample data)
SampleAgents == {"agent_sample_1", "agent_sample_2"}

\* INSERT INTO bounties ... (sample data): status defaults to 'open',
\* assigned_agent_id to NULL.
SampleBounties ==
    [b \in {"bounty_sample_1", "bounty_sample_2", "bounty_sample_3"} |->
        [creator_id |-> IF b = "bounty_sample_3" THEN "user_sample_1"
                        ELSE "user_sample_2",
         status |-> "open",
         assigned_agent_id |-> NULL]]

\* Bounty.status in the client's type
BountyStatus == {"open", "inProgress", "closed"}

\* CREATE POLICY "Users can update own bounties": the rows of bounties a
\* caller may UPDATE.
BountyUpdatePolicy(tbl, users, uid) ==
    {b \in DOMAIN tbl :
        uid = ServiceRole \/ (uid \in DOMAIN users /\ tbl[b].creator_id = uid)}

\* claimBounty without .eq('status', 'open')
ClaimMatchedAnyStatus(tbl, users, uid, bountyId) ==
    {b \in BountyUpdatePolicy(tbl, users, uid) : b = bountyId}

\* claimBounty filtering on "not closed" instead of "open"
ClaimMatchedNotClosed(tbl, users, uid, bountyId) ==
    {b \in BountyUpdatePolicy(tbl, users, uid) :
        b = bountyId /\ tbl[b].status # "closed"}

\* .eq('bountyId', bountyId).eq('status', 'open'): the rows the UPDATE of
\* claimBounty touches, among those the caller may update.
ClaimMatched(tbl, users, uid, bountyId) ==
    {b \in BountyUpdatePolicy(tbl, users, uid) :
        b = bountyId /\ tbl[b].status = "open"}

\* assigned_agent_id TEXT REFERENCES agents(agent_id)
AssignedAgentFK(agentsTbl, agentId) ==
    agentId = NULL \/ agentId \in agentsTbl

\* bountyService.claimBounty as one SQL statement: UPDATE ... RETURNING,
\* then .single(), which is an error unless exactly one row came back.
\* The result holds the new table, the returned row and the error.
ClaimBounty(tbl, agentsTbl, users, uid, bountyId, agentId) ==
    LET rows == ClaimMatched(tbl, users, uid, bountyId)
        updated == [b \in DOMAIN tbl |->
                      IF b \in rows
                      THEN [tbl[b] EXCEPT !.status = "inProgress",
                                          !.assigned_agent_id = agentId]
                      ELSE tbl[b]]
    IN  IF rows # {} /\ ~AssignedAgentFK(agentsTbl, agentId)
        THEN [table |-> tbl, data |-> NULL, error |-> "23503"]
        ELSE IF Cardinality(rows) = 1
        THEN [table |-> updated, data |-> CHOOSE b \in rows : TRUE,
              error |-> NULL]
        ELSE [table |-> tbl, data |-> NULL, error |-> "PGRST116"]

\* The rows of agents a caller may DELETE: row level security is enabled on
\* agents and no policy is FOR DELETE, so only the role that bypasses it.
AgentDeletePolicy(agentsTbl, uid) ==
    IF uid = ServiceRole THEN agentsTbl ELSE {}

\* agentService.deleteAgent as one SQL statement: DELETE ... WHERE
\* agentId = ?, with ON DELETE SET NULL on bounties.assigned_agent_id. No
\* row matching is not an error. The result holds both tables.
DeleteAgent(agentsTbl, tbl, uid, agentId) ==
    LET rows == {a \in AgentDeletePolicy(agentsTbl, uid) : a = agentId}
    IN  [agents |-> agentsTbl \ rows,
         bounties |-> [b \in DOMAIN tbl |->
                         IF tbl[b].assigned_agent_id \in rows
                         THEN [tbl[b] EXCEPT !.assigned_agent_id = NULL]
                         ELSE tbl[b]]]

\* bountyService.updateBounty with updates = {status}: UPDATE ... WHERE
\* bountyId = ?, under the same policy.
UpdateBountyStatus(tbl, users, uid, bountyId, status) ==
    [b \in DOMAIN tbl |->
        IF b = bountyId /\ b \in BountyUpdatePolicy(tbl, users, uid)
        THEN [tbl[b] EXCEPT !.status = status]
        ELSE tbl[b]]

\* wallet_address TEXT UNIQUE NOT NULL, with the constraint left out
WalletUniqueMissing(tbl, wallet) == TRUE

\* wallet_address TEXT UNIQUE NOT NULL: whether a row with this wallet may
\* be added to users.
WalletUnique(tbl, wallet) ==
    wallet # NULL /\ \A u \in DOMAIN tbl : tbl[u].wallet_address # wallet

\* users has policies for SELECT and UPDATE only: with row level security
\* enabled, INSERT is refused to every role that does not bypass it.
UsersInsertPolicy(uid) == uid = ServiceRole

\* CREATE POLICY "Users can view own data": the rows of users a caller sees.
UsersSelectPolicy(tbl, uid) ==
    {u \in DOMAIN tbl : uid = ServiceRole \/ u = uid}

\* userService.getUser: .eq('walletAddress', w).single(); the error
\* PGRST116 (not exactly one row) is not thrown, and data is then null.
GetUser(tbl, uid, wallet) ==
    LET rows == {u \in UsersSelectPolicy(tbl, uid) :
                    tbl[u].wallet_address = wallet}
    IN  IF Cardinality(rows) = 1 THEN CHOOSE u \in rows : TRUE ELSE NULL

\* userService.createUser as one INSERT: the policy, the primary key, the
\* unique wallet address; the result holds the new table and the error.
CreateUser(tbl, uid, userId, userData) ==
    IF ~UsersInsertPolicy(uid)
    THEN [table |-> tbl, error |-> "42501"]
    ELSE IF userId \in DOMAIN tbl
    THEN [table |-> tbl, error |-> "23505 users_pkey"]
    ELSE IF ~WalletUnique(tbl, userData.walletAddress)
    THEN [table |-> tbl, error |-> "23505 users_wallet_address_key"]
    ELSE [table |-> tbl @@ (userId :>
                      [wallet_address |-> userData.walletAddress,
                       credit_balance |-> userData.creditBalance,
                       staked_amount |-> userData.stakedAmount]),
          error |-> NULL]

\* CHECK (type IN ('stake', 'unstake', 'spend', 'earn', 'refund'))
TransactionTypes == {"stake", "unstake", "spend", "earn", "refund"}

\* staked_amount DECIMAL(18, 6): the value is kept in units of 10^-6
DecimalScale == 1000000

\* NEW.amount::decimal / 100, in units of 10^-6
CreditsToDollars(amount) == (amount * DecimalScale) \div 100

\* process_credit_transaction with 'refund' handled as 'spend'
ProcessRefundAsSpend(users, new) ==
    [u \in DOMAIN users |->
        IF u # new.user_id THEN users[u]
        ELSE CASE new.type = "earn" ->
                    [users[u] EXCEPT !.credit_balance = @ + new.amount]
               [] new.type \in {"spend", "refund"} ->
                    [users[u] EXCEPT !.credit_balance = @ - new.amount]
               [] new.type = "stake" ->
                    [users[u] EXCEPT !.staked_amount = @ + CreditsToDollars(new.amount)]
               [] new.type = "unstake" ->
                    [users[u] EXCEPT !.staked_amount = @ - CreditsToDollars(new.amount)]]

\* process_credit_transaction: the trigger AFTER INSERT ON
\* credit_transactions, for the inserted row `new`; gives the users table.
ProcessCreditTransaction(users, new) ==
    [u \in DOMAIN users |->
        IF u # new.user_id THEN users[u]
        ELSE CASE new.type \in {"earn", "refund"} ->
                    [users[u] EXCEPT !.credit_balance = @ + new.amount]
               [] new.type = "spend" ->
                    [users[u] EXCEPT !.credit_balance = @ - new.amount]
               [] new.type = "stake" ->
                    [users[u] EXCEPT !.staked_amount = @ + CreditsToDollars(new.amount)]
               [] new.type = "unstake" ->
                    [users[u] EXCEPT !.staked_amount = @ - CreditsToDollars(new.amount)]]

\* credit_transactions has a policy for SELECT only: INSERT is refused to
\* every role that does not bypass row level security.
TransactionsInsertPolicy(uid) == uid = ServiceRole

\* creditService.createTransaction as one INSERT with its trigger: the
\* policy, the primary key, the foreign key to users, the CHECK on type.
\* The result holds both tables and the error.
CreateTransaction(txs, users, uid, transactionId, transactionData) ==
    LET new == [user_id |-> transactionData.userId,
                type |-> transactionData.type,
                amount |-> transactionData.amount]
        refused(code) == [transactions |-> txs, users |-> users, error |-> code]
    IN  IF ~TransactionsInsertPolicy(uid) THEN refused("42501")
        ELSE IF transactionId \in DOMAIN txs THEN refused("23505")
        ELSE IF new.user_id \notin DOMAIN users THEN refused("23503")
        ELSE IF new.type \notin TransactionTypes THEN refused("23514")
        ELSE [transactions |-> txs @@ (transactionId :> new),
              users |-> ProcessCreditTransaction(users, new),
              error |-> NULL]

(***************************************************************************)
(* Clients of the data layer                                               *)
(***************************************************************************)

\* Number of concurrent claimBounty callers
MaxClaimCalls == 2

ClaimClients == 1..MaxClaimCalls

\* Inputs of the calls: a bounty of another user, an own bounty, an
\* identifier that is in no row.
BountyIdInputs == {"bounty_sample_1", "bounty_sample_3", "bounty_unknown"}
AgentIdInputs == {"agent_sample_1", "agent_sample_2", "agent_unknown"}
UidInputs == {ServiceRole, "user_sample_1"}

IdleCall == [pc |-> "idle", uid |-> NULL, bountyId |-> NULL,
             agentId |-> NULL, data |-> NULL, error |-> NULL]

\* Number of clients calling userService
MaxSessions == 2

Sessions == 1..MaxSessions

\* Last clock tick
MaxNow == 2

\* Wallet addresses that are in no sample row
WalletInputs == {"0xAAAA", "0xBBBB"}

\* Inputs of createTransaction: a sample user and a user that is in no row;
\* an amount below and one above the sample balances.
UserIdInputs == {"user_sample_1", "user_unknown"}
AmountInputs == {30, 250}

NoSession == [got |-> NULL, createWallet |-> NULL, created |-> NULL]

InitDB ==
    /\ dbUsers = SampleUsers
    /\ dbAgents = SampleAgents
    /\ dbBounties = SampleBounties
    /\ dbCreditTransactions = <<>>
    /\ claimCalls = [c \in ClaimClients |-> IdleCall]
    /\ userSessions = [s \in Sessions |-> NoSession]
    /\ now = 0

\* Time passes.
Tick ==
    /\ now < MaxNow
    /\ now' = now + 1
    /\ UNCHANGED <<dbUsers, dbAgents, dbBounties, dbCreditTransactions,
                   claimCalls, userSessions>>
    /\ UNCHANGED notDB

\* Client s calls getUser(walletAddress) and keeps what it returns.
SessionGetUser(s, uid, wallet) ==
    /\ LET data == GetUser(dbUsers, uid, wallet)
       IN userSessions' = [userSessions EXCEPT ![s] =
             [got |-> IF data = NULL THEN "null" ELSE data,
              createWallet |-> NULL, created |-> NULL]]
    /\ UNCHANGED <<dbUsers, dbAgents, dbBounties, dbCreditTransactions,
                   claimCalls, now>>

\* Client s calls createUser({walletAddress, creditBalance, stakedAmount});
\* userId is `user_${Date.now()}`.
SessionCreateUser(s, uid, wallet) ==
    /\ LET r == CreateUser(dbUsers, uid, "user_" \o ToString(now),
                           [walletAddress |-> wallet, creditBalance |-> 100,
                            stakedAmount |-> 0])
       IN /\ dbUsers' = r.table
          /\ userSessions' = [userSessions EXCEPT
                ![s].createWallet = wallet,
                ![s].created = IF r.error = NULL THEN "ok" ELSE r.error]
    /\ UNCHANGED <<dbAgents, dbBounties, dbCreditTransactions, claimCalls, now>>

\* A client calls createTransaction({userId, type, amount});
\* transactionId is `tx_${Date.now()}`.
InsertTransaction(uid, userId, type, amount) ==
    /\ LET r == CreateTransaction(dbCreditTransactions, dbUsers, uid,
                                  "tx_" \o ToString(now),
                                  [userId |-> userId, type |-> type,
                                   amount |-> amount])
       IN /\ dbCreditTransactions' = r.transactions
          /\ dbUsers' = r.users
    /\ UNCHANGED <<dbAgents, dbBounties, claimCalls, userSessions, now>>

\* A client calls claimBounty(bountyId, agentId): the request is sent.
ClaimIssue(c, uid, bountyId, agentId) ==
    /\ claimCalls[c].pc = "idle"
    /\ claimCalls' = [claimCalls EXCEPT ![c] =
          [pc |-> "sent", uid |-> uid, bountyId |-> bountyId,
           agentId |-> agentId, data |-> NULL, error |-> NULL]]
    /\ UNCHANGED <<dbUsers, dbAgents, dbBounties, dbCreditTransactions,
                   userSessions, now>>

\* The database runs the statement and the awaiting caller resumes:
\* `if (error) throw error; return data`.
ClaimExec(c) ==
    /\ claimCalls[c].pc = "sent"
    /\ LET r == ClaimBounty(dbBounties, dbAgents, dbUsers, claimCalls[c].uid,
                            claimCalls[c].bountyId, claimCalls[c].agentId)
       IN /\ dbBounties' = r.table
          /\ claimCalls' = [claimCalls EXCEPT ![c].pc = "done",
                                              ![c].data = r.data,
                                              ![c].error = r.error]
    /\ UNCHANGED <<dbUsers, dbAgents, dbCreditTransactions, userSessions, now>>

\* deleteAgent(agentId) by some caller, as one step.
AgentDelete(uid, agentId) ==
    /\ LET r == DeleteAgent(dbAgents, dbBounties, uid, agentId)
       IN /\ dbAgents' = r.agents
          /\ dbBounties' = r.bounties
    /\ UNCHANGED <<dbUsers, dbCreditTransactions, claimCalls, userSessions, now>>

\* updateBounty(bountyId, {status}) by some caller, as one step.
UpdateBounty(uid, bountyId, status) ==
    /\ dbBounties' = UpdateBountyStatus(dbBounties, dbUsers, uid, bountyId, status)
    /\ UNCHANGED <<dbUsers, dbAgents, dbCreditTransactions, claimCalls,
                   userSessions, now>>

(***************************************************************************)
(* IN-MEMORY STORE: UserProvider, AgentLaunch, CreditManager, App          *)
(***************************************************************************)

\* Number of handlers (stakes, purchases, launches) started in a run
MaxOps == 3

\* Addresses the wallet can connect with
AddressInputs == {"0xAAAA", "0xBBBB"}

\* App's views that mount AgentLaunch and CreditManager, and the dashboard
Views == {"dashboard", "launch", "credits"}

\* creditBalance: 100, // Starting credits
StartingCredits == 100

\* handleCreditLaunch: the credits one launch costs
LaunchCost == 10

\* handleStakeForCredits: stakes $20 for 50 credits
QuickStakeAmount == 20
QuickStakeCredits == 50

\* Two of CreditManager's stake buttons: handleStake(20 | 50)
StakeOptions == {20, 50}

\* Two of CreditManager's purchase buttons: handlePurchase(credits, cost)
PurchaseOptions == {<<25, 10>>, <<60, 20>>}

\* Number of credit launches in a run that spends the whole balance
MaxLaunches == 11

\* Number of stakes and purchases in a run that spends the whole balance
MaxBalanceOps == 2

\* What Date.now() reads at clock tick 0: the clock of a run is far above
\* the numbers 1, 2, 3 of the sample identifiers
StoreEpoch == 1000000

\* Last clock tick of a store run
MaxStoreNow == 1

\* Number of wallet events (connect, disconnect, account change) in a run
MaxWalletEvents == 2

\* const creditsEarned = amount * 2.5
CreditsEarned(amount) == (amount * 5) \div 2

\* useState<User | null>(null): the null user, as a record of the same shape
NoUser == [userId |-> NULL, walletAddress |-> NULL, creditBalance |-> 0,
           stakedAmount |-> 0]

\* { ...user, ...updates }
Spread(record, updates) ==
    [f \in DOMAIN record |-> IF f \in DOMAIN updates THEN updates[f] ELSE record[f]]

\* updateUser, called through a closure that holds `closedUser` as user:
\* if (user) setUser({ ...user, ...updates }). Gives the next user state.
UpdateUser(closedUser, current, updates) ==
    IF closedUser # NoUser THEN Spread(closedUser, updates) ELSE current

\* sampleAgents, for the user just created (avgReward in tenths)
SampleStoreAgents(userId) ==
    << [agentId |-> "agent_1", userId |-> userId, status |-> "active",
        successRate |-> 92, totalRuns |-> 45, avgReward |-> 125],
       [agentId |-> "agent_2", userId |-> userId, status |-> "active",
        successRate |-> 88, totalRuns |-> 32, avgReward |-> 183] >>

\* sampleBounties, for the user just created
SampleStoreBounties(userId) ==
    << [bountyId |-> "bounty_1", creatorId |-> "other_user", rewardAmount |-> 25,
        status |-> "open", assignedAgentId |-> NULL],
       [bountyId |-> "bounty_2", creatorId |-> "other_user", rewardAmount |-> 50,
        status |-> "open", assignedAgentId |-> NULL],
       [bountyId |-> "bounty_3", creatorId |-> userId, rewardAmount |-> 30,
        status |-> "inProgress", assignedAgentId |-> "agent_1"] >>

\* addAgent, called through a closure that holds `closedUser` as user, at
\* clock tick t: the next agents array.
AddAgent(closedUser, list, agentData, t) ==
    IF closedUser # NoUser
    THEN Append(list, [agentId |-> "agent_" \o ToString(StoreEpoch + t),
                       userId |-> closedUser.userId,
                       status |-> agentData.status,
                       successRate |-> agentData.successRate,
                       totalRuns |-> agentData.totalRuns,
                       avgReward |-> agentData.avgReward])
    ELSE list

\* addBounty, called through a closure that holds `closedUser` as user, at
\* clock tick t: the next bounties array.
AddBounty(closedUser, list, bountyData, t) ==
    IF closedUser # NoUser
    THEN Append(list, [bountyId |-> "bounty_" \o ToString(StoreEpoch + t),
                       creatorId |-> closedUser.userId,
                       rewardAmount |-> bountyData.rewardAmount,
                       status |-> bountyData.status,
                       assignedAgentId |-> NULL])
    ELSE list

\* Nothing completed yet: the numbers of stakes, purchases and credit
\* launches that ran to their end, the dollars staked, the credits bought.
NoneCompleted == [stakes |-> 0, staked |-> 0, purchases |-> 0, purchased |-> 0,
                  launches |-> 0]

\* The agent both launch handlers add
LaunchedAgent == [status |-> "active", successRate |-> 0, totalRuns |-> 0,
                  avgReward |-> 0]

InitStore ==
    /\ isConnected = FALSE
    /\ address = NULL
    /\ user = NoUser
    /\ agents = <<>>
    /\ bounties = <<>>
    /\ effectDue = FALSE
    /\ currentView = "dashboard"
    /\ formFilled = FALSE
    /\ launchMethod = "direct"
    /\ isLaunching = FALSE
    /\ launchIsStaking = FALSE
    /\ isStaking = FALSE
    /\ isPurchasing = FALSE
    /\ pending = <<>>
    /\ completed = NoneCompleted
    /\ opsStarted = 0
    /\ walletEvents = 0

walletVars == <<isConnected, address>>
dataVars == <<user, agents, bounties>>
launchVars == <<formFilled, launchMethod, isLaunching, launchIsStaking>>
creditVars == <<isStaking, isPurchasing>>

\* The wallet connects with an address.
WalletConnect(addr) ==
    /\ ~effectDue /\ ~isConnected
    /\ walletEvents < MaxWalletEvents
    /\ walletEvents' = walletEvents + 1
    /\ isConnected' = TRUE /\ address' = addr
    /\ effectDue' = TRUE
    /\ UNCHANGED <<dataVars, currentView, launchVars, creditVars, pending,
                   completed, opsStarted>>

\* The wallet disconnects.
WalletDisconnect ==
    /\ ~effectDue /\ isConnected
    /\ walletEvents < MaxWalletEvents
    /\ walletEvents' = walletEvents + 1
    /\ isConnected' = FALSE /\ address' = NULL
    /\ effectDue' = TRUE
    /\ UNCHANGED <<dataVars, currentView, launchVars, creditVars, pending,
                   completed, opsStarted>>

\* The connected wallet switches to another account.
AccountChange(addr) ==
    /\ ~effectDue /\ isConnected /\ addr # address
    /\ walletEvents < MaxWalletEvents
    /\ walletEvents' = walletEvents + 1
    /\ address' = addr
    /\ effectDue' = TRUE
    /\ UNCHANGED <<isConnected, dataVars, currentView, launchVars, creditVars,
                   pending, completed, opsStarted>>

\* useEffect(..., [isConnected, address, user]): creates the user and the
\* sample data on connection, clears the store when not connected. It runs
\* again when it has changed user.
RunEffect ==
    /\ effectDue
    /\ IF isConnected /\ address # NULL /\ user = NoUser
       THEN LET newUser == [userId |-> "user_" \o ToString(StoreEpoch + now),
                            walletAddress |-> address,
                            creditBalance |-> StartingCredits,
                            stakedAmount |-> 0]
            IN /\ user' = newUser
               /\ agents' = SampleStoreAgents(newUser.userId)
               /\ bounties' = SampleStoreBounties(newUser.userId)
               /\ completed' = NoneCompleted
       ELSE IF ~isConnected
       THEN /\ user' = NoUser
            /\ agents' = <<>>
            /\ bounties' = <<>>
            /\ completed' = NoneCompleted
       ELSE UNCHANGED <<dataVars, completed>>
    /\ effectDue' = (user' # user)
    /\ UNCHANGED <<walletVars, currentView, launchVars, creditVars, pending,
                   opsStarted, walletEvents>>

\* setCurrentView(view): the component of the old view unmounts, and its
\* handlers still awaiting keep running without it; the component of the new
\* view mounts with fresh state.
Navigate(view) ==
    /\ ~effectDue /\ view # currentView
    /\ currentView' = view
    /\ pending' = [i \in DOMAIN pending |->
                     IF pending[i].view = currentView
                     THEN [pending[i] EXCEPT !.mounted = FALSE]
                     ELSE pending[i]]
    /\ formFilled' = FALSE /\ launchMethod' = "direct"
    /\ isLaunching' = FALSE /\ launchIsStaking' = FALSE
    /\ isStaking' = FALSE /\ isPurchasing' = FALSE
    /\ UNCHANGED <<walletVars, dataVars, effectDue, completed, opsStarted, walletEvents>>

\* handleInputChange until name, description and promptTemplate are set
FillForm ==
    /\ ~effectDue /\ currentView = "launch" /\ ~formFilled
    /\ formFilled' = TRUE
    /\ UNCHANGED <<walletVars, dataVars, effectDue, currentView, launchMethod,
                   isLaunching, launchIsStaking, creditVars, pending, completed,
                   opsStarted, walletEvents>>

\* setLaunchMethod
SetLaunchMethod(method) ==
    /\ ~effectDue /\ currentView = "launch" /\ method # launchMethod
    /\ launchMethod' = method
    /\ UNCHANGED <<walletVars, dataVars, effectDue, currentView, formFilled,
                   isLaunching, launchIsStaking, creditVars, pending, completed,
                   opsStarted, walletEvents>>

\* A handler that has called createSession and awaits it: what it closed
\* over (user), its arguments, its view, whether its component is mounted.
Awaiting(op, view, amount, credits) ==
    [op |-> op, view |-> view, user |-> user, amount |-> amount,
     credits |-> credits, mounted |-> TRUE]

\* handleDirectLaunch up to `await createSession(...)`
HandleDirectLaunch ==
    /\ ~effectDue /\ currentView = "launch" /\ launchMethod = "direct"
    /\ ~isLaunching /\ formFilled
    /\ user # NoUser
    /\ opsStarted < MaxOps
    /\ isLaunching' = TRUE
    /\ pending' = Append(pending, Awaiting("handleDirectLaunch", "launch", 5, 0))
    /\ opsStarted' = opsStarted + 1 /\ UNCHANGED walletEvents
    /\ UNCHANGED <<walletVars, dataVars, effectDue, currentView, formFilled,
                   launchMethod, launchIsStaking, creditVars, completed>>

\* handleStakeForCredits up to `await createSession(...)`
HandleStakeForCredits ==
    /\ ~effectDue /\ currentView = "launch" /\ ~launchIsStaking
    /\ user # NoUser
    /\ opsStarted < MaxOps
    /\ launchIsStaking' = TRUE
    /\ pending' = Append(pending, Awaiting("handleStakeForCredits", "launch",
                                           QuickStakeAmount, QuickStakeCredits))
    /\ opsStarted' = opsStarted + 1 /\ UNCHANGED walletEvents
    /\ UNCHANGED <<walletVars, dataVars, effectDue, currentView, formFilled,
                   launchMethod, isLaunching, creditVars, completed>>

\* a guard that lets every credit launch through
CanCreditLaunchAlways(u) == TRUE

\* handleCreditLaunch's guard on the balance: user.creditBalance < 10 returns
CanCreditLaunch(u) == u.creditBalance >= LaunchCost

\* handleCreditLaunch: deducts the credits, adds the agent, resets the form.
CreditLaunch ==
    /\ ~effectDue /\ currentView = "launch" /\ launchMethod = "stake"
    /\ user # NoUser /\ CanCreditLaunch(user) /\ formFilled
    /\ user' = UpdateUser(user, user,
                          [creditBalance |-> user.creditBalance - LaunchCost])
    /\ agents' = AddAgent(user, agents, LaunchedAgent, now)
    /\ formFilled' = FALSE
    /\ effectDue' = TRUE
    /\ completed' = [completed EXCEPT !.launches = @ + 1]
    /\ UNCHANGED <<walletVars, bounties, currentView, launchMethod, isLaunching,
                   launchIsStaking, creditVars, pending, walletEvents>>

\* handleCreditLaunch, as one of the MaxOps handlers of a run
HandleCreditLaunch ==
    /\ opsStarted < MaxOps
    /\ CreditLaunch
    /\ opsStarted' = opsStarted + 1

\* handleCreditLaunch, up to MaxLaunches times in a run
HandleCreditLaunchRepeated ==
    /\ completed.launches < MaxLaunches
    /\ CreditLaunch
    /\ UNCHANGED opsStarted

\* handleStake(amount) up to `await createSession(...)`
HandleStake(amount) ==
    /\ ~effectDue /\ currentView = "credits" /\ ~isStaking
    /\ user # NoUser
    /\ opsStarted < MaxOps
    /\ isStaking' = TRUE
    /\ pending' = Append(pending, Awaiting("handleStake", "credits", amount,
                                           CreditsEarned(amount)))
    /\ opsStarted' = opsStarted + 1 /\ UNCHANGED walletEvents
    /\ UNCHANGED <<walletVars, dataVars, effectDue, currentView, launchVars,
                   isPurchasing, completed>>

\* handlePurchase(credits, cost) up to `await createSession(...)`
HandlePurchase(credits, cost) ==
    /\ ~effectDue /\ currentView = "credits" /\ ~isPurchasing
    /\ user # NoUser
    /\ opsStarted < MaxOps
    /\ isPurchasing' = TRUE
    /\ pending' = Append(pending, Awaiting("handlePurchase", "credits", cost,
                                           credits))
    /\ opsStarted' = opsStarted + 1 /\ UNCHANGED walletEvents
    /\ UNCHANGED <<walletVars, dataVars, effectDue, currentView, launchVars,
                   isStaking, completed>>

\* pending without its i-th element
Without(seq, i) == SubSeq(seq, 1, i - 1) \o SubSeq(seq, i + 1, Len(seq))

\* `finally`: the handler's busy flag is cleared, if its component is
\* still the mounted one.
ClearBusy(h) ==
    /\ isLaunching' = IF h.mounted /\ h.op = "handleDirectLaunch"
                      THEN FALSE ELSE isLaunching
    /\ launchIsStaking' = IF h.mounted /\ h.op = "handleStakeForCredits"
                          THEN FALSE ELSE launchIsStaking
    /\ isStaking' = IF h.mounted /\ h.op = "handleStake"
                    THEN FALSE ELSE isStaking
    /\ isPurchasing' = IF h.mounted /\ h.op = "handlePurchase"
                       THEN FALSE ELSE isPurchasing

\* What the handler passes to updateUser once its payment went through
PaidUpdates(h) ==
    IF h.op = "handlePurchase"
    THEN [creditBalance |-> h.user.creditBalance + h.credits]
    ELSE [creditBalance |-> h.user.creditBalance + h.credits,
          stakedAmount |-> h.user.stakedAmount + h.amount]

\* createSession resolves and the i-th awaiting handler runs to its end:
\* the stake and purchase handlers call updateUser, handleDirectLaunch
\* calls addAgent and resets the form.
PaymentResolved(i) ==
    /\ ~effectDue /\ i \in DOMAIN pending
    /\ LET h == pending[i]
       IN /\ IF h.op = "handleDirectLaunch"
             THEN /\ agents' = AddAgent(h.user, agents, LaunchedAgent, now)
                  /\ formFilled' = IF h.mounted THEN FALSE ELSE formFilled
                  /\ UNCHANGED <<user, effectDue, completed>>
             ELSE /\ user' = UpdateUser(h.user, user, PaidUpdates(h))
                  /\ effectDue' = TRUE
                  /\ completed' =
                        IF h.op = "handlePurchase"
                        THEN [completed EXCEPT !.purchases = @ + 1,
                                               !.purchased = @ + h.credits]
                        ELSE [completed EXCEPT !.stakes = @ + 1,
                                               !.staked = @ + h.amount]
                  /\ UNCHANGED <<agents, formFilled>>
          /\ ClearBusy(h)
    /\ pending' = Without(pending, i)
    /\ UNCHANGED <<walletVars, bounties, currentView, launchMethod, opsStarted, walletEvents>>

\* a catch block that lets the handler go on as if the payment went through
PaymentFailedStillAdds(i) == PaymentResolved(i)

\* createSession rejects (no wallet client, request error, no X-PAYMENT
\* header): the handler logs the error and changes nothing in the store.
PaymentFailed(i) ==
    /\ ~effectDue /\ i \in DOMAIN pending
    /\ ClearBusy(pending[i])
    /\ pending' = Without(pending, i)
    /\ UNCHANGED <<walletVars, dataVars, effectDue, currentView, formFilled,
                   launchMethod, completed, opsStarted, walletEvents>>

\* Time passes.
StoreTick ==
    /\ now < MaxStoreNow
    /\ now' = now + 1
    /\ UNCHANGED <<dbUsers, dbAgents, dbBounties, dbCreditTransactions,
                   claimCalls, userSessions>>
    /\ UNCHANGED notDB

NextStore ==
    \/ /\ \/ \E addr \in AddressInputs : WalletConnect(addr)
          \/ WalletDisconnect
          \/ \E addr \in AddressInputs : AccountChange(addr)
          \/ RunEffect
          \/ \E v \in Views : Navigate(v)
          \/ FillForm
          \/ \E m \in {"direct", "stake"} : SetLaunchMethod(m)
          \/ HandleDirectLaunch
          \/ HandleStakeForCredits
          \/ HandleCreditLaunch
          \/ \E a \in StakeOptions : HandleStake(a)
          \/ \E p \in PurchaseOptions : HandlePurchase(p[1], p[2])
          \/ \E i \in DOMAIN pending : PaymentResolved(i)
          \/ \E i \in DOMAIN pending : PaymentFailed(i)
       /\ UNCHANGED notStore
    \/ StoreTick

\* the launch view alone: direct and credit launches while the wallet
\* connects and disconnects
NextLaunch ==
    \/ /\ \/ \E addr \in AddressInputs : WalletConnect(addr)
          \/ WalletDisconnect
          \/ RunEffect
          \/ \E v \in Views : Navigate(v)
          \/ FillForm
          \/ \E m \in {"direct", "stake"} : SetLaunchMethod(m)
          \/ HandleDirectLaunch
          \/ HandleCreditLaunch
          \/ \E i \in DOMAIN pending : PaymentResolved(i)
          \/ \E i \in DOMAIN pending : PaymentFailed(i)
       /\ UNCHANGED notStore
    \/ StoreTick

\* every view of App: BountyMarketplace is mounted by 'marketplace'
StoreViews == Views \cup {"marketplace"}

\* the reward typed into BountyMarketplace's form, 0 standing for a form
\* with an empty field
RewardInputs == {0, 25}

\* handleCreateBounty: returns on an incomplete form, else calls addBounty
\* with status 'open' and resets the form.
HandleCreateBounty(reward) ==
    /\ ~effectDue /\ currentView = "marketplace"
    /\ opsStarted < MaxOps
    /\ bounties' = IF reward = 0 THEN bounties
                   ELSE AddBounty(user, bounties,
                                  [rewardAmount |-> reward, status |-> "open"],
                                  now)
    /\ opsStarted' = opsStarted + 1
    /\ UNCHANGED <<walletVars, user, agents, effectDue, currentView, launchVars,
                   creditVars, pending, completed, walletEvents>>

\* the identifiers the store hands out: launches in every view order, and
\* bounties created in the marketplace, while the clock ticks or not
NextIds ==
    \/ /\ \/ \E addr \in AddressInputs : WalletConnect(addr)
          \/ RunEffect
          \/ \E v \in StoreViews : Navigate(v)
          \/ FillForm
          \/ \E m \in {"direct", "stake"} : SetLaunchMethod(m)
          \/ HandleDirectLaunch
          \/ HandleCreditLaunch
          \/ \E reward \in RewardInputs : HandleCreateBounty(reward)
          \/ \E i \in DOMAIN pending : PaymentResolved(i)
          \/ \E i \in DOMAIN pending : PaymentFailed(i)
       /\ UNCHANGED notStore
    \/ StoreTick

\* the credit balance: credit launches until the balance is spent, with
\* stakes and purchases in between
NextBalance ==
    /\ \/ \E addr \in AddressInputs : WalletConnect(addr)
       \/ RunEffect
       \/ \E v \in Views : Navigate(v)
       \/ FillForm
       \/ \E m \in {"direct", "stake"} : SetLaunchMethod(m)
       \/ HandleCreditLaunchRepeated
       \/ /\ opsStarted < MaxBalanceOps
          /\ \E a \in StakeOptions : HandleStake(a)
       \/ /\ opsStarted < MaxBalanceOps
          /\ \E p \in PurchaseOptions : HandlePurchase(p[1], p[2])
       \/ \E i \in DOMAIN pending : PaymentResolved(i)
       \/ \E i \in DOMAIN pending : PaymentFailed(i)
    /\ UNCHANGED notStore
(***************************************************************************)
(* TEXT-COMPLETION WRAPPERS: OpenAIService                                 *)
(*                                                                         *)
(* A response text is a sequence of JSON tokens (white space and the       *)
(* spelling of literals are left to the lexer); "Sure" stands for any      *)
(* word that is not a JSON token.  A JavaScript value read from JSON is    *)
(* the token sequence that denotes it, and undefined is the empty one.     *)
(***************************************************************************)

MaxTokens == 5

Tokens == {"{", "}", ":", ",", "null", "85", "\"score\"", "\"reasoning\"",
           "Sure"}

StringTokens == {"\"score\"", "\"reasoning\""}

\* numbers a score may be: in range, zero, negative, above 100
NumberTokens == {"85", "0", "-5", "150"}

ScalarTokens == StringTokens \cup {"null"} \cup NumberTokens

\* answers that are an object with a score of each kind of number
ScoreTexts == {<<"{", "\"score\"", ":", v, "}">> : v \in NumberTokens}

\* the texts the completion endpoint may answer with
Texts == UNION {[1..n -> Tokens] : n \in 0..MaxTokens} \cup ScoreTexts

Functions == {"optimizePrompt", "generatePerformanceInsights",
              "validateBountySubmission"}

\* the argument currentPrompt of optimizePrompt, as a string value
PromptInputs == {<<"\"You are a helpful agent\"">>, <<"\"Summarise {{input}}\"">>}

Undefined == <<>>

RECURSIVE IsValue(_, _, _), IsMembers(_, _, _)

\* tokens i..j of t are one JSON value
IsValue(t, i, j) ==
    \/ i = j /\ t[i] \in ScalarTokens
    \/ /\ i < j
       /\ t[i] = "{"
       /\ t[j] = "}"
       /\ (j = i + 1 \/ IsMembers(t, i + 1, j - 1))

\* tokens i..j of t are one member: a string, a colon and a value
IsMember(t, i, j) ==
    /\ j >= i + 2
    /\ t[i] \in StringTokens
    /\ t[i + 1] = ":"
    /\ IsValue(t, i + 2, j)

\* tokens i..j of t are members separated by commas
IsMembers(t, i, j) ==
    \/ IsMember(t, i, j)
    \/ \E k \in (i + 1)..(j - 1) :
          /\ t[k] = ","
          /\ IsMember(t, i, k - 1)
          /\ IsMembers(t, k + 1, j)

\* JSON.parse(text): the value, or a SyntaxError
JsonParse(text) ==
    IF Len(text) > 0 /\ IsValue(text, 1, Len(text))
    THEN [error |-> FALSE, value |-> text]
    ELSE [error |-> TRUE, value |-> Undefined]

\* nesting depth of the braces before token i
Depth(t, i) ==
    Cardinality({k \in 1..(i - 1) : t[k] = "{"})
        - Cardinality({k \in 1..(i - 1) : t[k] = "}"})

\* where the members named key of the object v start
MemberStarts(v, key) ==
    {p \in 2..(Len(v) - 1) :
        /\ v[p] = key
        /\ v[p + 1] = ":"
        /\ v[p - 1] \in {"{", ","}
        /\ Depth(v, p) = 1}

\* the last token of the value of the member that starts at p
ValueEnd(v, p) ==
    CHOOSE q \in (p + 2)..(Len(v) - 1) :
        /\ v[q + 1] \in {",", "}"}
        /\ Depth(v, q + 1) = 1
        /\ \A q2 \in (p + 2)..(q - 1) :
               ~(v[q2 + 1] \in {",", "}"} /\ Depth(v, q2 + 1) = 1)

\* parsed.key: a TypeError on null, the member's value on an object that
\* has one (the last of them), undefined otherwise
GetProperty(parsed, key) ==
    IF parsed = <<"null">>
    THEN [threw |-> TRUE, value |-> Undefined]
    ELSE IF parsed[1] = "{" /\ MemberStarts(parsed, key) # {}
    THEN LET p == CHOOSE m \in MemberStarts(parsed, key) :
                      \A m2 \in MemberStarts(parsed, key) : m2 <= m
         IN  [threw |-> FALSE, value |-> SubSeq(parsed, p + 2, ValueEnd(parsed, p))]
    ELSE [threw |-> FALSE, value |-> Undefined]

\* the values of the alphabet that are falsy: undefined, null and 0
Falsy(v) == v \in {Undefined, <<"null">>, <<"0">>}

\* v || d
OrElse(v, d) == IF Falsy(v) THEN d ELSE v

NaN == [nan |-> TRUE, n |-> 0]

Num(n) == [nan |-> FALSE, n |-> n]

\* Number(v) for the values of the alphabet and the default 0
ToNumber(v) ==
    IF v = <<"85">> THEN Num(85)
    ELSE IF v = <<"-5">> THEN Num(0 - 5)
    ELSE IF v = <<"150">> THEN Num(150)
    ELSE IF v = <<"0">> \/ v = <<"null">> THEN Num(0)
    ELSE NaN

\* Math.max(0, Math.min(100, x))
Clamp(x) ==
    IF x.nan THEN NaN
    ELSE Num(IF x.n > 100 THEN 100 ELSE IF x.n < 0 THEN 0 ELSE x.n)

EmptyArray == <<"[", "]">>

\* a call returned value
Returned(value) == [threw |-> FALSE, message |-> "", value |-> value]

\* what the outer catch of each operation puts before the message
ErrorLabel(fn) ==
    CASE fn = "optimizePrompt" -> "Prompt optimization failed: "
      [] fn = "generatePerformanceInsights" -> "Performance analysis failed: "
      [] fn = "validateBountySubmission" -> "Submission validation failed: "

\* the outer catch: throw new Error(label + error.message)
Thrown(fn, message) ==
    [threw |-> TRUE, message |-> ErrorLabel(fn) \o message, value |-> Undefined]

\* the hard-coded object of each operation's inner catch
Fallback(fn, currentPrompt) ==
    CASE fn = "optimizePrompt" ->
            [currentPrompt |-> currentPrompt,
             suggestedPrompt |-> currentPrompt,
             reasoning |-> <<"\"Unable to generate optimization suggestions at this time.\"">>,
             expectedImprovement |-> <<"\"Please try again later.\"">>]
      [] fn = "generatePerformanceInsights" ->
            [strengths |-> <<"[", "\"Consistent performance\"", "]">>,
             weaknesses |-> <<"[", "\"Limited data for analysis\"", "]">>,
             recommendations |-> <<"[", "\"Continue monitoring performance\"", "]">>,
             marketOpportunities |-> <<"[", "\"Explore new task types\"", "]">>]
      [] fn = "validateBountySubmission" ->
            [score |-> Num(50),
             feedback |-> <<"\"Unable to evaluate submission at this time\"">>,
             meetsRequirements |-> FALSE,
             suggestions |-> <<"[", "\"Please resubmit for manual review\"", "]">>]

\* an inner catch that passes the error on to the outer one
InnerCatchRethrows(fn, currentPrompt) == Thrown(fn, "Unexpected end of JSON input")

\* the inner catch, with the error dropped, returns the fallback
InnerCatch(fn, currentPrompt) == Returned(Fallback(fn, currentPrompt))

\* the return statement of each inner try block; reading a property of null
\* throws there
FromParsed(fn, currentPrompt, parsed) ==
    IF GetProperty(parsed, "\"score\"").threw
    THEN [threw |-> TRUE, message |-> "Cannot read properties of null",
          value |-> Undefined]
    ELSE CASE fn = "optimizePrompt" ->
                Returned([currentPrompt |-> currentPrompt,
                          suggestedPrompt |-> GetProperty(parsed, "\"suggestedPrompt\"").value,
                          reasoning |-> GetProperty(parsed, "\"reasoning\"").value,
                          expectedImprovement |-> GetProperty(parsed, "\"expectedImprovement\"").value])
           [] fn = "generatePerformanceInsights" ->
                Returned([strengths |-> OrElse(GetProperty(parsed, "\"strengths\"").value, EmptyArray),
                          weaknesses |-> OrElse(GetProperty(parsed, "\"weaknesses\"").value, EmptyArray),
                          recommendations |-> OrElse(GetProperty(parsed, "\"recommendations\"").value, EmptyArray),
                          marketOpportunities |-> OrElse(GetProperty(parsed, "\"marketOpportunities\"").value, EmptyArray)])
           [] fn = "validateBountySubmission" ->
                Returned([score |-> Clamp(ToNumber(OrElse(GetProperty(parsed, "\"score\"").value, <<"0">>))),
                          feedback |-> OrElse(GetProperty(parsed, "\"feedback\"").value,
                                              <<"\"No feedback available\"">>),
                          meetsRequirements |-> ~Falsy(GetProperty(parsed, "\"meetsRequirements\"").value),
                          suggestions |-> EmptyArray])

\* completion.choices[0]?.message?.content || ''
ResponseText(completion) ==
    IF completion.choices = <<>> THEN <<>>
    ELSE IF completion.choices[1].content.isNull THEN <<>>
    ELSE completion.choices[1].content.text

\* the inner try ... catch around JSON.parse and the return statement
ParseResponse(fn, currentPrompt, response) ==
    LET parsed == JsonParse(response)
    IN  IF parsed.error
        THEN InnerCatch(fn, currentPrompt)
        ELSE LET result == FromParsed(fn, currentPrompt, parsed.value)
             IN  IF result.threw THEN InnerCatch(fn, currentPrompt) ELSE result

NullContent == [isNull |-> TRUE, text |-> <<>>]

\* what a completion request that succeeds may resolve to
CompletionInputs ==
    {[choices |-> <<>>]}
        \cup {[choices |-> <<[content |-> c]>>] :
                c \in {NullContent} \cup {[isNull |-> FALSE, text |-> t] : t \in Texts}}

\* what a completion request that fails may reject with
ErrorInputs == {"Request timed out", "429 Rate limit exceeded"}

NoCompletion == [choices |-> <<>>]

NoOutcome == [threw |-> FALSE, message |-> "", value |-> Undefined]

InitAI ==
    aiCall = [fn |-> NULL, currentPrompt |-> Undefined, stage |-> "idle",
              resolved |-> FALSE, completion |-> NoCompletion,
              outcome |-> NoOutcome, requests |-> 0]

\* the caller invokes optimizePrompt (lines 94-133): the request is sent
OptimizePrompt(currentPrompt) ==
    /\ aiCall.stage = "idle"
    /\ aiCall' = [aiCall EXCEPT !.fn = "optimizePrompt",
                                !.currentPrompt = currentPrompt,
                                !.requests = @ + 1,
                                !.stage = "awaiting"]

\* the caller invokes generatePerformanceInsights: the request is sent
GeneratePerformanceInsights ==
    /\ aiCall.stage = "idle"
    /\ aiCall' = [aiCall EXCEPT !.fn = "generatePerformanceInsights",
                                !.requests = @ + 1,
                                !.stage = "awaiting"]

\* the caller invokes validateBountySubmission: the request is sent
ValidateBountySubmission ==
    /\ aiCall.stage = "idle"
    /\ aiCall' = [aiCall EXCEPT !.fn = "validateBountySubmission",
                                !.requests = @ + 1,
                                !.stage = "awaiting"]

\* the request resolves: the rest of the operation runs to its return
CompletionResolved ==
    /\ aiCall.stage = "awaiting"
    /\ aiCall.fn # "executeAgent"
    /\ \E completion \in CompletionInputs :
          aiCall' = [aiCall EXCEPT
                        !.stage = "done",
                        !.resolved = TRUE,
                        !.completion = completion,
                        !.outcome = ParseResponse(aiCall.fn, aiCall.currentPrompt,
                                                  ResponseText(completion))]

\* the request rejects: the outer catch wraps the error and throws
CompletionRejected ==
    /\ aiCall.stage = "awaiting"
    /\ aiCall.fn # "executeAgent"
    /\ \E message \in ErrorInputs :
          aiCall' = [aiCall EXCEPT !.stage = "done",
                                   !.outcome = Thrown(aiCall.fn, message)]

(* executeAgent *)

MaxElapsed == 1

\* new RegExp(pattern, 'g') throws a SyntaxError for a pattern that is not
\* a regular expression: in "{c++}" the second + has nothing to repeat.
InvalidPatterns == {"{c++}"}

RegExpThrows(pattern) == pattern \in InvalidPatterns

\* processed.replace(new RegExp(placeholder, 'g'), String(value)) on a
\* text held as a sequence of words: every word the pattern matches is
\* replaced
ReplaceAll(processed, placeholder, value) ==
    [i \in 1..Len(processed) |->
        IF processed[i] = placeholder THEN value ELSE processed[i]]

\* processPromptTemplate: Object.entries(variables).forEach, in insertion
\* order; the result holds the text, or the error of the first RegExp
\* that threw
RECURSIVE ProcessPromptTemplate(_, _)
ProcessPromptTemplate(template, variables) ==
    IF variables = <<>>
    THEN [threw |-> FALSE, message |-> "", value |-> template]
    ELSE LET placeholder == "{" \o Head(variables).key \o "}"
         IN  IF RegExpThrows(placeholder)
             THEN [threw |-> TRUE,
                   message |-> "Invalid regular expression: /"
                                \o placeholder \o "/: Nothing to repeat",
                   value |-> Undefined]
             ELSE ProcessPromptTemplate(
                      ReplaceAll(template, placeholder, Head(variables).value),
                      Tail(variables))

\* { task: request.taskDescription, ...request.context }, for a context
\* without a key task
Variables(request) ==
    <<[key |-> "task", value |-> request.taskDescription]>> \o request.context

\* what callers pass to executeAgent
RequestInputs ==
    [promptTemplate : {<<"Do", "{task}">>, <<"{task}", "on", "{topic}">>},
     taskDescription : {"audit"},
     context : {<<>>, <<[key |-> "topic", value |-> "DeFi"]>>,
                <<[key |-> "c++", value |-> "yes"]>>}]

NoUsage == [isUndefined |-> TRUE, total_tokens |-> 0]

\* what the request of executeAgent may resolve to
ExecutionCompletionInputs ==
    [choices : {<<>>, <<[content |-> NullContent]>>,
                <<[content |-> [isNull |-> FALSE, text |-> <<"Sure">>]]>>},
     usage : {NoUsage} \cup [isUndefined : {FALSE}, total_tokens : {0, 12}]]

\* completion.usage?.total_tokens || 0
TokensUsed(completion) ==
    IF completion.usage.isUndefined THEN 0 ELSE completion.usage.total_tokens

\* the object executeAgent returns from its try block
ExecutionSucceeded(completion, executionTime) ==
    Returned([success |-> TRUE, output |-> ResponseText(completion),
              tokensUsed |-> TokensUsed(completion),
              executionTime |-> executionTime])

\* what the request of executeAgent may reject with: an Error with a
\* message, or a value that is not an Error
ExecutionErrorInputs ==
    [isError : {TRUE}, message : ErrorInputs]
        \cup {[isError |-> FALSE, message |-> ""]}

\* a catch block that reads error.message whatever was thrown
MessageOfAnything(error) == error.message

\* error instanceof Error ? error.message : 'Unknown error occurred'
MessageOf(error) ==
    IF error.isError THEN error.message ELSE "Unknown error occurred"

\* the object executeAgent returns from its catch block
ExecutionFailed(error, executionTime) ==
    Returned([success |-> FALSE, output |-> <<>>, tokensUsed |-> 0,
              executionTime |-> executionTime, error |-> MessageOf(error)])

\* the caller invokes executeAgent (lines 39-66): the prompt is built and,
\* unless that throws, the request is sent; an error goes to the catch
\* block, which returns at once.
ExecuteAgent(request) ==
    LET processedPrompt ==
            ProcessPromptTemplate(request.promptTemplate, Variables(request))
    IN  /\ aiCall.stage = "idle"
        /\ IF processedPrompt.threw
           THEN aiCall' = [aiCall EXCEPT
                              !.fn = "executeAgent",
                              !.currentPrompt = request.promptTemplate,
                              !.stage = "done",
                              !.outcome =
                                  ExecutionFailed(
                                      [isError |-> TRUE,
                                       message |-> processedPrompt.message],
                                      0)]
           ELSE aiCall' = [aiCall EXCEPT
                              !.fn = "executeAgent",
                              !.currentPrompt = processedPrompt.value,
                              !.requests = @ + 1,
                              !.stage = "awaiting"]

\* the request of executeAgent resolves (lines 68-77)
ExecutionResolved ==
    /\ aiCall.stage = "awaiting"
    /\ aiCall.fn = "executeAgent"
    /\ \E completion \in ExecutionCompletionInputs, elapsed \in 0..MaxElapsed :
          aiCall' = [aiCall EXCEPT
                        !.stage = "done",
                        !.resolved = TRUE,
                        !.completion = completion,
                        !.outcome = ExecutionSucceeded(completion, elapsed)]

\* the request of executeAgent rejects (lines 78-88)
ExecutionRejected ==
    /\ aiCall.stage = "awaiting"
    /\ aiCall.fn = "executeAgent"
    /\ \E error \in ExecutionErrorInputs, elapsed \in 0..MaxElapsed :
          aiCall' = [aiCall EXCEPT
                        !.stage = "done",
                        !.outcome = ExecutionFailed(error, elapsed)]

NextAI ==
    /\ \/ \E p \in PromptInputs : OptimizePrompt(p)
       \/ GeneratePerformanceInsights
       \/ ValidateBountySubmission
       \/ CompletionResolved
       \/ CompletionRejected
       \/ \E request \in RequestInputs : ExecuteAgent(request)
       \/ ExecutionResolved
       \/ ExecutionRejected
    /\ UNCHANGED notAI
(***************************************************************************)
(* ANALYTICS: AnalyticsService                                             *)
(***************************************************************************)

MaxAgents == 7

MaxActivityAgents == 1

MaxBounties == 1

MaxTransactions == 9

\* inputs that hold a timestamp no date can be read from have at most this
\* many entries (the order Array.prototype.sort leaves them in is then
\* implementation-defined: every order is explored)
MaxUnordered == 3

RecentActivityLimit == 10

\* the argument userId
MetricsUserId == "user_1"

\* new Date(timestamp).getTime() of the timestamps used, in milliseconds
\* counted from 2024-01-15T00:00:00.000Z; the shift leaves the differences
\* the comparator takes unchanged
EpochOffset ==
    [t \in {"2024-01-15T10:00:00.000Z", "2024-01-15T10:00:00.001Z",
            "2024-01-16T08:30:00.000Z"} |->
        CASE t = "2024-01-15T10:00:00.000Z" -> 36000000
          [] t = "2024-01-15T10:00:00.001Z" -> 36000001
          [] t = "2024-01-16T08:30:00.000Z" -> 117000000]

\* timestamps no date can be read from: a missing field and a malformed text
InvalidTimestamps == {"undefined", "yesterday"}

\* new Date(timestamp).getTime(): NaN for an Invalid Date
DateGetTime(timestamp) ==
    IF timestamp \in DOMAIN EpochOffset THEN Num(EpochOffset[timestamp]) ELSE NaN

\* agents of the inputs whose average and best agent are computed
MetricsAgentInputs ==
    {[successRate |-> r, status |-> "active",
      createdAt |-> "2024-01-15T10:00:00.000Z"] : r \in {0, 29, 92}}

\* agents of the inputs whose activity feed is computed
ActivityAgentInputs ==
    {[successRate |-> 92, status |-> "active",
      createdAt |-> "2024-01-15T10:00:00.001Z"],
     [successRate |-> 88, status |-> "failed",
      createdAt |-> "2024-01-16T08:30:00.000Z"]}

\* a store bounty has no updatedAt (UserContext Bounty): it reads undefined
BountyInputs ==
    {[creatorId |-> MetricsUserId, status |-> "closed", rewardAmount |-> 30,
      updatedAt |-> "2024-01-15T10:00:00.000Z"],
     [creatorId |-> "other_user", status |-> "open", rewardAmount |-> 25,
      updatedAt |-> "2024-01-16T08:30:00.000Z"],
     [creatorId |-> MetricsUserId, status |-> "closed", rewardAmount |-> 50,
      updatedAt |-> "undefined"]}

TransactionInputs ==
    {[type |-> "earn", amount |-> 30, timestamp |-> "2024-01-15T10:00:00.000Z"],
     [type |-> "earn", amount |-> 5, timestamp |-> "2024-01-16T08:30:00.000Z"],
     [type |-> "spend", amount |-> 10, timestamp |-> "2024-01-15T10:00:00.001Z"],
     [type |-> "earn", amount |-> 7, timestamp |-> "yesterday"]}

\* inputs whose feed is longer than the limit: agents, bounties of the
\* user and of others, open and closed, transactions of two types
MaxFeedAgents == 8
MaxFeedBounties == 2
MaxFeedTransactions == 2

FeedAgentInputs ==
    {[successRate |-> 92, status |-> "active",
      createdAt |-> "2024-01-15T10:00:00.001Z"]}

FeedBountyInputs ==
    {[creatorId |-> MetricsUserId, status |-> "closed", rewardAmount |-> 30,
      updatedAt |-> "2024-01-15T10:00:00.000Z"],
     [creatorId |-> "other_user", status |-> "closed", rewardAmount |-> 25,
      updatedAt |-> "2024-01-16T08:30:00.000Z"],
     [creatorId |-> MetricsUserId, status |-> "open", rewardAmount |-> 50,
      updatedAt |-> "2024-01-15T10:00:00.001Z"],
     [creatorId |-> "other_user", status |-> "inProgress", rewardAmount |-> 40,
      updatedAt |-> "2024-01-15T10:00:00.000Z"]}

FeedTransactionInputs ==
    {[type |-> "earn", amount |-> 30, timestamp |-> "2024-01-16T08:30:00.000Z"],
     [type |-> "spend", amount |-> 10, timestamp |-> "2024-01-15T10:00:00.001Z"]}

NoAgent ==
    [agentId |-> NULL, successRate |-> 0, status |-> NULL, createdAt |-> NULL]

\* ---- numbers: the quotient of two integers as an IEEE 754 double --------

\* bits of the significand of a double
Precision == 53

Pow2(k) == 2 ^ k

\* (2 ^ j) % m
RECURSIVE PowMod2(_, _)
PowMod2(j, m) == IF j = 0 THEN 1 % m ELSE (2 * PowMod2(j - 1, m)) % m

\* 2^e <= s / n, for positive s and n
AtLeastPow2(s, n, e) ==
    IF e >= 0 THEN Pow2(e) * n <= s ELSE n <= s * Pow2(0 - e)

\* the exponent of s / n: the largest e with 2^e <= s / n
RECURSIVE ExponentFrom(_, _, _)
ExponentFrom(s, n, e) ==
    IF AtLeastPow2(s, n, e + 1) THEN ExponentFrom(s, n, e + 1) ELSE e

Exponent(s, n) == ExponentFrom(s, n, 0 - 16)

Zero == [num |-> 0, den |-> 1, err |-> 0, scale |-> 0]

\* s / n for integers s >= 0 and n > 0, rounded to the nearest double, ties
\* to even.  The double is (s * 2^scale + err) / (n * 2^scale): with
\* s * 2^scale = m * n + r, the significand is m (err = -r) or m + 1
\* (err = n - r).
Divide(s, n) ==
    IF s = 0 THEN Zero
    ELSE LET j == (Precision - 1) - Exponent(s, n)
             r == ((s % n) * PowMod2(j, n)) % n
             odd == (((s % (2 * n)) * PowMod2(j, 2 * n)) % (2 * n)) \div n = 1
             up == 2 * r > n \/ (2 * r = n /\ odd)
         IN  [num |-> s, den |-> n, err |-> IF up THEN n - r ELSE 0 - r,
              scale |-> j]

\* ---- getUserPerformanceMetrics -------------------------------------------

\* agents.reduce((sum, a) => sum + a.performanceMetrics.successRate, 0)
RECURSIVE SumSuccessRateSkipsFirst(_)
SumSuccessRateSkipsFirst(list) ==
    IF Len(list) <= 1 THEN 0
    ELSE SumSuccessRateSkipsFirst(SubSeq(list, 1, Len(list) - 1))
            + list[Len(list)].successRate

RECURSIVE SumSuccessRate(_)
SumSuccessRate(list) ==
    IF list = <<>> THEN 0
    ELSE SumSuccessRate(SubSeq(list, 1, Len(list) - 1))
            + list[Len(list)].successRate

AverageSuccessRate(list) ==
    IF Len(list) > 0 THEN Divide(SumSuccessRate(list), Len(list)) ELSE Zero

\* the reducer's test that replaces best by current
BetterOrEqual(current, best) == current.successRate >= best.successRate

Better(current, best) == current.successRate > best.successRate

\* agents.reduce((best, current) => ...) without an initial value: best
\* starts as the first agent
RECURSIVE ReduceBest(_)
ReduceBest(list) ==
    IF Len(list) = 1 THEN list[1]
    ELSE LET best == ReduceBest(SubSeq(list, 1, Len(list) - 1))
             current == list[Len(list)]
         IN  IF Better(current, best) THEN current ELSE best

TopPerformingAgent(list) ==
    IF Len(list) > 0 THEN ReduceBest(list) ELSE NoAgent

\* transactions.filter(t => t.type === 'earn').reduce((sum, t) => sum + t.amount, 0)
RECURSIVE TotalEarnings(_)
TotalEarnings(list) ==
    IF list = <<>> THEN 0
    ELSE TotalEarnings(SubSeq(list, 1, Len(list) - 1))
            + (IF list[Len(list)].type = "earn" THEN list[Len(list)].amount ELSE 0)

\* the event pushed for the agent at index i
AgentEvent(agent) ==
    [id |-> "agent_" \o agent.agentId, type |-> "agent_created",
     timestamp |-> agent.createdAt, hasValue |-> FALSE, value |-> 0]

BountyEvent(bounty) ==
    [id |-> "bounty_" \o bounty.bountyId, type |-> "bounty_completed",
     timestamp |-> bounty.updatedAt, hasValue |-> TRUE,
     value |-> bounty.rewardAmount]

EarnEvent(transaction) ==
    [id |-> "earn_" \o transaction.transactionId, type |-> "credits_earned",
     timestamp |-> transaction.timestamp, hasValue |-> TRUE,
     value |-> transaction.amount]

MapSeq(Op(_), list) == [i \in 1..Len(list) |-> Op(list[i])]

IsClosed(bounty) == bounty.status = "closed"

\* a filter that lets every transaction through
IsAnyTransaction(transaction) == transaction.type \in {"earn", "spend"}

IsEarn(transaction) == transaction.type = "earn"

\* the activities array before it is sorted
Activities(agentList, bountyList, transactionList) ==
    MapSeq(AgentEvent, agentList)
        \o MapSeq(BountyEvent, SelectSeq(bountyList, IsClosed))
        \o MapSeq(EarnEvent, SelectSeq(transactionList, IsEarn))

\* the comparator of the sort: b's time minus a's; NaN when either is one
Comparator(a, b) ==
    LET ta == DateGetTime(a.timestamp)
        tb == DateGetTime(b.timestamp)
    IN  IF ta.nan \/ tb.nan THEN NaN ELSE Num(tb.n - ta.n)

\* the comparator returns a number for every pair: it is then a consistent
\* comparator and the sort is the stable sort it defines
ConsistentOn(list) ==
    \A i \in 1..Len(list) : ~DateGetTime(list[i].timestamp).nan

\* x put behind the last entry that the comparator does not place after it
RECURSIVE InsertStable(_, _)
InsertStable(sorted, x) ==
    IF sorted = <<>> THEN <<x>>
    ELSE LET last == sorted[Len(sorted)]
         IN  IF Comparator(last, x).n <= 0
             THEN Append(sorted, x)
             ELSE Append(InsertStable(SubSeq(sorted, 1, Len(sorted) - 1), x), last)

RECURSIVE StableSort(_)
StableSort(list) ==
    IF list = <<>> THEN <<>>
    ELSE InsertStable(StableSort(SubSeq(list, 1, Len(list) - 1)), list[Len(list)])

\* what activities.sort(comparator) may leave: the stable sorted order, or,
\* for a comparator that is not consistent, any order
ArraySort(list) ==
    IF Len(list) <= 1 \/ ConsistentOn(list)
    THEN {StableSort(list)}
    ELSE {[i \in 1..Len(list) |-> list[p[i]]] : p \in Permutations(1..Len(list))}

\* array.slice(0, end)
Slice(list, end) == SubSeq(list, 1, IF Len(list) < end THEN Len(list) ELSE end)

Count(list, Test(_)) == Len(SelectSeq(list, Test))

IsActive(agent) == agent.status = "active"

IsOwn(bounty) == bounty.creatorId = MetricsUserId

\* a filter of all the bounties, not of the user's, by status
IsClosedOfAnyone(bounty) == IsClosed(bounty)

IsOwnClosed(bounty) == IsOwn(bounty) /\ IsClosed(bounty)

NoMetrics ==
    [returned |-> FALSE, totalAgents |-> 0, activeAgents |-> 0,
     totalBounties |-> 0, completedBounties |-> 0, totalEarnings |-> 0,
     averageSuccessRate |-> Zero, topPerformingAgent |-> NoAgent,
     recentActivity |-> <<>>]

\* the number of entries in the three argument lists
Entries == Len(mAgents) + Len(mBounties) + Len(mTransactions)

\* some entry has a timestamp no date can be read from
HasInvalidTimestamp ==
    \/ \E i \in DOMAIN mAgents : mAgents[i].createdAt \in InvalidTimestamps
    \/ \E i \in DOMAIN mBounties : mBounties[i].updatedAt \in InvalidTimestamps
    \/ \E i \in DOMAIN mTransactions : mTransactions[i].timestamp \in InvalidTimestamps

\* the bound on inputs with unreadable timestamps, for one more entry
MayAppend(timestamp) ==
    (HasInvalidTimestamp \/ timestamp \in InvalidTimestamps)
        => Entries < MaxUnordered

\* the caller's list of agents grows by one
AppendAgent(agent, max) ==
    /\ ~performanceMetrics.returned
    /\ Len(mAgents) < max
    /\ MayAppend(agent.createdAt)
    /\ mAgents' = Append(mAgents,
                         [agentId |-> ToString(Len(mAgents) + 1)] @@ agent)
    /\ UNCHANGED <<mBounties, mTransactions, performanceMetrics, roi>>

\* the caller's list of bounties grows by one
AppendBounty(bounty) ==
    /\ ~performanceMetrics.returned
    /\ Len(mBounties) < MaxBounties
    /\ MayAppend(bounty.updatedAt)
    /\ mBounties' = Append(mBounties,
                           [bountyId |-> ToString(Len(mBounties) + 1)] @@ bounty)
    /\ UNCHANGED <<mAgents, mTransactions, performanceMetrics, roi>>

\* the caller's list of transactions grows by one
AppendTransaction(transaction) ==
    /\ ~performanceMetrics.returned
    /\ Len(mTransactions) < MaxTransactions
    /\ MayAppend(transaction.timestamp)
    /\ mTransactions' =
          Append(mTransactions,
                 [transactionId |-> ToString(Len(mTransactions) + 1)] @@ transaction)
    /\ UNCHANGED <<mAgents, mBounties, performanceMetrics, roi>>

\* the caller's list of bounties grows by one, up to max
AppendBountyUpTo(bounty, max) ==
    /\ ~performanceMetrics.returned
    /\ Len(mBounties) < max
    /\ mBounties' = Append(mBounties,
                           [bountyId |-> ToString(Len(mBounties) + 1)] @@ bounty)
    /\ UNCHANGED <<mAgents, mTransactions, performanceMetrics, roi>>

\* the caller's list of transactions grows by one, up to max
AppendTransactionUpTo(transaction, max) ==
    /\ ~performanceMetrics.returned
    /\ Len(mTransactions) < max
    /\ mTransactions' =
          Append(mTransactions,
                 [transactionId |-> ToString(Len(mTransactions) + 1)] @@ transaction)
    /\ UNCHANGED <<mAgents, mBounties, performanceMetrics, roi>>

\* getUserPerformanceMetrics(userId, agents, bounties, transactions)
GetUserPerformanceMetrics ==
    /\ ~performanceMetrics.returned
    /\ \E recentActivity \in ArraySort(Activities(mAgents, mBounties, mTransactions)) :
          performanceMetrics' =
              [returned |-> TRUE,
               totalAgents |-> Len(mAgents),
               activeAgents |-> Count(mAgents, IsActive),
               totalBounties |-> Count(mBounties, IsOwn),
               completedBounties |-> Count(mBounties, IsOwnClosed),
               totalEarnings |-> TotalEarnings(mTransactions),
               averageSuccessRate |-> AverageSuccessRate(mAgents),
               topPerformingAgent |-> TopPerformingAgent(mAgents),
               recentActivity |-> Slice(recentActivity, RecentActivityLimit)]
    /\ UNCHANGED <<mAgents, mBounties, mTransactions, roi>>

\* ---- calculateStakingROI -------------------------------------------------
\* Numbers here are exact fractions, with Infinity and NaN for what a
\* division by zero gives; the rounding of doubles is left out.

RECURSIVE GCD(_, _)
GCD(a, b) == IF b = 0 THEN a ELSE GCD(b, a % b)

Abs(n) == IF n < 0 THEN 0 - n ELSE n

\* the fraction n / d (d > 0) in lowest terms
Fraction(n, d) ==
    LET g == GCD(Abs(n), d)
    IN  [kind |-> "finite", num |-> n \div g, den |-> d \div g]

PlusInfinity == [kind |-> "inf", num |-> 1, den |-> 0]

NotANumber == [kind |-> "nan", num |-> 0, den |-> 0]

\* a * b, for operands that are not negative
Times(a, b) ==
    IF a.kind = "nan" \/ b.kind = "nan" THEN NotANumber
    ELSE IF a.kind = "inf" \/ b.kind = "inf"
    THEN IF (a.kind = "finite" /\ a.num = 0) \/ (b.kind = "finite" /\ b.num = 0)
         THEN NotANumber ELSE PlusInfinity
    ELSE Fraction(a.num * b.num, a.den * b.den)

\* a / b, for operands that are not negative
Over(a, b) ==
    IF a.kind = "nan" \/ b.kind = "nan" THEN NotANumber
    ELSE IF a.kind = "inf"
    THEN IF b.kind = "inf" THEN NotANumber ELSE PlusInfinity
    ELSE IF b.kind = "inf" THEN Fraction(0, 1)
    ELSE IF b.num = 0
    THEN IF a.num = 0 THEN NotANumber ELSE PlusInfinity
    ELSE Fraction(a.num * b.den, a.den * b.num)

\* a - b, for finite operands
Minus(a, b) ==
    IF a.kind # "finite" \/ b.kind # "finite" THEN NotANumber
    ELSE Fraction(a.num * b.den - b.num * a.den, a.den * b.den)

\* Math.max(a, b), for finite operands
MathMax(a, b) ==
    IF a.kind # "finite" \/ b.kind # "finite" THEN NotANumber
    ELSE IF a.num * b.den >= b.num * a.den THEN a ELSE b

\* Math.min(a, b), for finite operands
MathMin(a, b) ==
    IF a.kind # "finite" \/ b.kind # "finite" THEN NotANumber
    ELSE IF a.num * b.den <= b.num * a.den THEN a ELSE b

\* 0.05: dollars per credit
creditRate == Fraction(1, 20)

\* 0.2: bonus credits for staking
stakingRate == Fraction(1, 5)

StakingCredits(stakedAmount) ==
    Times(Over(Fraction(stakedAmount, 1), creditRate),
          Fraction(stakingRate.den + stakingRate.num, stakingRate.den))

StakingValue(stakedAmount, creditsUsed) ==
    Times(MathMin(Fraction(creditsUsed, 1), StakingCredits(stakedAmount)), creditRate)

\* the object calculateStakingROI returns
StakingROI(stakedAmount, creditsUsed, timeframe) ==
    LET directPaymentCost == Times(Fraction(creditsUsed, 1), creditRate)
        stakingCost == Fraction(stakedAmount, 1)
        savings == Minus(directPaymentCost, StakingValue(stakedAmount, creditsUsed))
        dailyCreditUsage == Over(Fraction(creditsUsed, 1), Fraction(timeframe, 1))
        dailySavings == Times(Times(dailyCreditUsage, creditRate), stakingRate)
    IN  [stakingROI |-> Times(Over(savings, stakingCost), Fraction(100, 1)),
         directPaymentCost |-> directPaymentCost,
         savings |-> savings,
         breakEvenPoint |-> Over(stakingCost, dailySavings)]

StakedAmountInputs == {0, 20, 50, 100, 250}

CreditsUsedInputs == {0, 100, 200, 480, 1500, 7000}

TimeframeInputs == {0, 7, 30, 90}

NoROI ==
    [returned |-> FALSE, stakedAmount |-> 0, creditsUsed |-> 0, timeframe |-> 0,
     value |-> [stakingROI |-> NotANumber, directPaymentCost |-> NotANumber,
                savings |-> NotANumber, breakEvenPoint |-> NotANumber]]

\* calculateStakingROI(stakedAmount, creditsUsed, timeframe)
CalculateStakingROI(stakedAmount, creditsUsed, timeframe) ==
    /\ roi' = [returned |-> TRUE, stakedAmount |-> stakedAmount,
               creditsUsed |-> creditsUsed, timeframe |-> timeframe,
               value |-> StakingROI(stakedAmount, creditsUsed, timeframe)]
    /\ UNCHANGED <<mAgents, mBounties, mTransactions, performanceMetrics>>

InitAnalytics ==
    /\ mAgents = <<>>
    /\ mBounties = <<>>
    /\ mTransactions = <<>>
    /\ performanceMetrics = NoMetrics
    /\ roi = NoROI

\* metrics of agent lists
NextMetrics ==
    /\ \/ \E a \in MetricsAgentInputs : AppendAgent(a, MaxAgents)
       \/ GetUserPerformanceMetrics
    /\ UNCHANGED notAnalytics

\* metrics of inputs with many events
NextActivity ==
    /\ \/ \E a \in ActivityAgentInputs : AppendAgent(a, MaxActivityAgents)
       \/ \E b \in BountyInputs : AppendBounty(b)
       \/ \E t \in TransactionInputs : AppendTransaction(t)
       \/ GetUserPerformanceMetrics
    /\ UNCHANGED notAnalytics

\* metrics of inputs with the bounties of several users
NextFeed ==
    /\ \/ \E a \in FeedAgentInputs : AppendAgent(a, MaxFeedAgents)
       \/ \E b \in FeedBountyInputs : AppendBountyUpTo(b, MaxFeedBounties)
       \/ \E t \in FeedTransactionInputs :
             AppendTransactionUpTo(t, MaxFeedTransactions)
       \/ GetUserPerformanceMetrics
    /\ UNCHANGED notAnalytics

NextROI ==
    /\ \E s \in StakedAmountInputs, c \in CreditsUsedInputs, t \in TimeframeInputs :
          CalculateStakingROI(s, c, t)
    /\ UNCHANGED notAnalytics


(***************************************************************************)
(* NUMBERS: IEEE 754 binary64 arithmetic                                   *)
(*                                                                         *)
(* A natural number is a sequence of limbs, least significant first, with  *)
(* no zero limb at its end; a double is m * 2^e with a significand m of    *)
(* exactly 53 bits, or zero, Infinity or NaN.  Every operation rounds the  *)
(* exact result to the nearest double, ties to the even significand.       *)
(* Subnormal numbers and overflow are beyond the values used.              *)
(***************************************************************************)

Base == 2 ^ 14

\* the number of bits of a limb d
BitsOfLimb(d) == CHOOSE n \in 0..30 : d < 2 ^ n /\ (n = 0 \/ d >= 2 ^ (n - 1))

LimbBits == BitsOfLimb(Base - 1)

\* the limb of a at position i, 0 above its end
BigLimb(a, i) == IF i <= Len(a) THEN a[i] ELSE 0

\* a without the zero limbs at its end
BigNorm(a) ==
    LET n == CHOOSE n \in 0..Len(a) :
                 /\ n = 0 \/ a[n] # 0
                 /\ \A k \in (n + 1)..Len(a) : a[k] = 0
    IN  SubSeq(a, 1, n)

RECURSIVE BigFromInt(_)
BigFromInt(n) ==
    IF n = 0 THEN <<>> ELSE <<n % Base>> \o BigFromInt(n \div Base)

\* a + b: a carry enters position i when a position below produces one and
\* every position between passes it on
BigAdd(a, b) ==
    LET n == IF Len(a) > Len(b) THEN Len(a) ELSE Len(b)
        s == [i \in 1..n |-> BigLimb(a, i) + BigLimb(b, i)]
        carry(i) ==
            IF \E j \in 1..(i - 1) :
                   /\ s[j] >= Base
                   /\ \A k \in (j + 1)..(i - 1) : s[k] = Base - 1
            THEN 1 ELSE 0
    IN  BigNorm([i \in 1..(n + 1) |->
                    IF i <= n THEN (s[i] + carry(i)) % Base ELSE carry(i)])

\* a - b, for a >= b: a borrow leaves position i when a position below needs
\* one and every position between passes it on
BigSub(a, b) ==
    LET borrow(i) ==
            IF \E j \in 1..(i - 1) :
                   /\ a[j] < BigLimb(b, j)
                   /\ \A k \in (j + 1)..(i - 1) : a[k] = BigLimb(b, k)
            THEN 1 ELSE 0
    IN  BigNorm([i \in 1..Len(a) |->
                    (a[i] - BigLimb(b, i) - borrow(i) + Base) % Base])

\* -1, 0 or 1 as a is below, equal to or above b
BigCmp(a, b) ==
    IF Len(a) < Len(b) THEN 0 - 1
    ELSE IF Len(a) > Len(b) THEN 1
    ELSE LET differ == {i \in 1..Len(a) : a[i] # b[i]}
             top == CHOOSE i \in differ : \A j \in differ : j <= i
         IN  IF differ = {} THEN 0
             ELSE IF a[top] < b[top] THEN 0 - 1 ELSE 1

\* a * d for a limb d: the lower halves of the products, plus their upper
\* halves one position up
BigMulLimb(a, d) ==
    BigAdd([i \in 1..Len(a) |-> (a[i] * d) % Base],
           <<0>> \o [i \in 1..Len(a) |-> (a[i] * d) \div Base])

RECURSIVE BigMul(_, _)
BigMul(a, b) ==
    IF b = <<>> THEN <<>>
    ELSE BigAdd(BigMulLimb(a, Head(b)), <<0>> \o BigMul(a, Tail(b)))

\* a * 2^k
BigShift(a, k) ==
    IF a = <<>> THEN a
    ELSE [i \in 1..(k \div LimbBits) |-> 0]
            \o BigMulLimb(a, 2 ^ (k % LimbBits))

BigBitLength(a) ==
    IF a = <<>> THEN 0 ELSE LimbBits * (Len(a) - 1) + BitsOfLimb(a[Len(a)])

\* the largest d among lo, lo + step, ..., lo + (count - 1) * step with
\* d * q <= r, where lo * q <= r
BigDigitAt(r, q, lo, step, count) ==
    CHOOSE d \in {lo + i * step : i \in 0..(count - 1)} :
        /\ BigCmp(BigMulLimb(q, d), r) <= 0
        /\ \/ d + step >= lo + count * step
           \/ BigCmp(BigMulLimb(q, d + step), r) > 0

\* the largest limb d with d * q <= r, where r < Base * q: found by its
\* upper, middle and lower bits in turn
BigDigit(r, q) ==
    LET upper == BigDigitAt(r, q, 0, Base \div 32, 32)
        middle == BigDigitAt(r, q, upper, Base \div (32 * 32), 32)
    IN  BigDigitAt(r, q, middle, 1, Base \div (32 * 32))

\* one step of the long division: the limb x is brought down to the
\* remainder of the limbs above it
BigDivStep(h, x, q) ==
    LET r == BigNorm(<<x>> \o h.rem)
        d == BigDigit(r, q)
    IN  [quo |-> BigNorm(<<d>> \o h.quo),
         rem |-> BigSub(r, BigMulLimb(q, d))]

\* quotient and remainder of p by q > 0: a p of fewer limbs than q is below q
RECURSIVE BigDivMod(_, _)
BigDivMod(p, q) ==
    IF Len(p) < Len(q) THEN [quo |-> <<>>, rem |-> p]
    ELSE BigDivStep(BigDivMod(Tail(p), q), Head(p), q)

\* the element of a set of one element: a value computed once is given a
\* name by drawing it from its singleton
The(S) == CHOOSE v \in S : TRUE

F64Zero == [kind |-> "finite", neg |-> FALSE, m |-> <<>>, e |-> 0]

F64Infinity == [kind |-> "inf", neg |-> FALSE, m |-> <<>>, e |-> 0]

F64NaN == [kind |-> "nan", neg |-> FALSE, m |-> <<>>, e |-> 0]

\* the significand m of Precision bits, or of one bit more after a carry out
\* of the rounding, which is then a power of two
F64Pack(m, e, neg) ==
    IF BigBitLength(m) > Precision
    THEN [kind |-> "finite", neg |-> neg,
          m |-> BigShift(<<1>>, Precision - 1), e |-> e + 1]
    ELSE [kind |-> "finite", neg |-> neg, m |-> m, e |-> e]

\* whether the bits cut off (cut.rem of drop bits, and a remainder d.rem
\* below them) round the kept bits cut.quo up: above the half, or at the half
\* with an odd significand
F64Up(cut, d, drop) ==
    The({c > 0 \/ (c = 0 /\ (d.rem # <<>> \/ cut.quo[1] % 2 = 1)) :
            c \in {BigCmp(cut.rem, BigShift(<<1>>, drop - 1))}})

\* the quotient d.quo of more than Precision bits cut to Precision bits
F64Cut(d, drop, e, neg) ==
    The({The({F64Pack(m, e + drop, neg) :
                m \in {IF F64Up(cut, d, drop)
                       THEN BigAdd(cut.quo, <<1>>) ELSE cut.quo}}) :
            cut \in {BigDivMod(d.quo, BigShift(<<1>>, drop))}})

\* p * 2^k / q, or p / (q * 2^-k), has Precision + 1 or Precision + 2 bits
F64Scaled(p, q, k, e, neg) ==
    The({The({F64Cut(d, drop, e - k, neg) :
                drop \in {BigBitLength(d.quo) - Precision}}) :
            d \in {BigDivMod(IF k >= 0 THEN BigShift(p, k) ELSE p,
                             IF k >= 0 THEN q ELSE BigShift(q, 0 - k))}})

\* the double nearest to (p / q) * 2^e, for q > 0, with the sign given
F64Round(p, q, e, neg) ==
    The({IF n = <<>> THEN F64Zero
         ELSE F64Scaled(n, d,
                        (Precision + 1) - (BigBitLength(n) - BigBitLength(d)),
                        e, neg) :
            n \in {p}, d \in {q}})

\* the double a decimal literal n / scale denotes
F64FromDecimal(n, scale) == F64Round(BigFromInt(n), BigFromInt(scale), 0, FALSE)

\* the significands of x and y brought to one exponent
F64Aligned(x, y) ==
    The({[x |-> BigShift(x.m, x.e - e0), y |-> BigShift(y.m, y.e - e0),
          e |-> e0] :
            e0 \in {IF x.e < y.e THEN x.e ELSE y.e}})

F64IsZero(x) == x.kind = "finite" /\ x.m = <<>>

\* x < y, for operands that are not negative and not NaN
F64Less(x, y) ==
    The({IF a.kind = "inf" THEN FALSE
         ELSE IF b.kind = "inf" THEN TRUE
         ELSE The({BigCmp(al.x, al.y) < 0 : al \in {F64Aligned(a, b)}}) :
            a \in {x}, b \in {y}})

\* x * y, for operands that are not negative
F64Times(x, y) ==
    The({IF a.kind = "nan" \/ b.kind = "nan" THEN F64NaN
         ELSE IF a.kind = "inf" \/ b.kind = "inf"
         THEN IF F64IsZero(a) \/ F64IsZero(b) THEN F64NaN ELSE F64Infinity
         ELSE F64Round(BigMul(a.m, b.m), <<1>>, a.e + b.e, FALSE) :
            a \in {x}, b \in {y}})

\* x / y, for operands that are not negative
F64Over(x, y) ==
    The({IF a.kind = "nan" \/ b.kind = "nan" THEN F64NaN
         ELSE IF a.kind = "inf"
         THEN IF b.kind = "inf" THEN F64NaN ELSE F64Infinity
         ELSE IF b.kind = "inf" THEN F64Zero
         ELSE IF F64IsZero(b)
         THEN IF F64IsZero(a) THEN F64NaN ELSE F64Infinity
         ELSE F64Round(a.m, b.m, a.e - b.e, FALSE) :
            a \in {x}, b \in {y}})

\* x + y, for finite operands that are not negative
F64Plus(x, y) ==
    The({F64Round(BigAdd(al.x, al.y), <<1>>, al.e, FALSE) :
            al \in {F64Aligned(x, y)}})

\* x - y, for finite operands that are not negative
F64Minus(x, y) ==
    The({The({IF BigCmp(al.x, al.y) >= 0
              THEN F64Round(BigSub(al.x, al.y), <<1>>, al.e, FALSE)
              ELSE F64Round(BigSub(al.y, al.x), <<1>>, al.e, TRUE) :
                 al \in {F64Aligned(a, b)}}) :
            a \in {x}, b \in {y}})

\* Math.max(x, y), for operands that are not negative
F64Max(x, y) ==
    The({IF a.kind = "nan" \/ b.kind = "nan" THEN F64NaN
         ELSE IF F64Less(a, b) THEN b ELSE a :
            a \in {x}, b \in {y}})

\* Math.min(x, y), for operands that are not negative
F64Min(x, y) ==
    The({IF a.kind = "nan" \/ b.kind = "nan" THEN F64NaN
         ELSE IF F64Less(b, a) THEN b ELSE a :
            a \in {x}, b \in {y}})

\* ---- calculateStakingROI in doubles --------------------------------------

\* the literals of the function body
creditRate64 == F64FromDecimal(5, 100)

stakingRate64 == F64FromDecimal(2, 10)

\* the arguments are given in hundredths: the double of n / 100
FromHundredths(n) == F64FromDecimal(n, 100)

\* stakedAmount / creditRate * (1 + stakingRate)
StakingCredits64(stakedAmount) ==
    F64Times(F64Over(stakedAmount, creditRate64),
             F64Plus(F64FromDecimal(1, 1), stakingRate64))

\* the object calculateStakingROI returns, every operation rounded; each
\* const of the body is computed once, in the order of the statements
StakingROI64(stakedAmount, creditsUsed, timeframe) ==
    The({The({The({The({
        [stakingROI |-> F64Times(F64Over(savings, stakingCost),
                                 F64FromDecimal(100, 1)),
         directPaymentCost |-> directPaymentCost,
         savings |-> savings,
         breakEvenPoint |-> F64Over(stakingCost, dailySavings)] :
            dailySavings \in {F64Times(F64Times(
                F64Over(creditsUsed, timeframe), creditRate64), stakingRate64)}}) :
            savings \in {F64Minus(directPaymentCost, stakingValue)}}) :
            stakingValue \in {F64Times(F64Min(creditsUsed, stakingCredits),
                                       creditRate64)}}) :
            directPaymentCost \in {F64Times(creditsUsed, creditRate64)},
            stakingCost \in {stakedAmount},
            stakingCredits \in {StakingCredits64(stakedAmount)}})

\* the arguments, in hundredths: whole and fractional dollars and credits,
\* at, below and above 24 credits for a dollar
StakedHundredths == {0, 1, 25, 1582, 2000, 5000}

CreditsHundredths == {0, 24, 600, 20000, 37968, 48000, 48100, 120000, 150000}

TimeframeDays == {0, 30}

NoROI64 ==
    [returned |-> FALSE, stakedAmount |-> 0, creditsUsed |-> 0, timeframe |-> 0,
     stakingCredits |-> F64NaN,
     value |-> [stakingROI |-> F64NaN, directPaymentCost |-> F64NaN,
                savings |-> F64NaN, breakEvenPoint |-> F64NaN]]

InitDouble == roi64 = NoROI64

\* one call calculateStakingROI(stakedAmount / 100, creditsUsed / 100,
\* timeframe); the local stakingCredits is kept beside the returned object
CalculateStakingROI64(stakedAmount, creditsUsed, timeframe) ==
    /\ ~roi64.returned
    /\ roi64' = [returned |-> TRUE, stakedAmount |-> stakedAmount,
                 creditsUsed |-> creditsUsed, timeframe |-> timeframe,
                 stakingCredits |-> StakingCredits64(FromHundredths(stakedAmount)),
                 value |-> StakingROI64(FromHundredths(stakedAmount),
                                        FromHundredths(creditsUsed),
                                        F64FromDecimal(timeframe, 1))]
    /\ UNCHANGED notDouble

NextROI64 ==
    \E s \in StakedHundredths, c \in CreditsHundredths, t \in TimeframeDays :
        CalculateStakingROI64(s, c, t)

(***************************************************************************)
(* DATABASE: the table agent_executions and its trigger (schema.sql)       *)
(***************************************************************************)

MaxInserts == 2

\* INSERT INTO agents ... (sample data): performance_metrics of each row
SampleAgentMetrics ==
    [a \in SampleAgents |->
        IF a = "agent_sample_1"
        THEN [successRate |-> Fraction(92, 1), totalRuns |-> 45,
              avgReward |-> Fraction(25, 2)]
        ELSE [successRate |-> Fraction(88, 1), totalRuns |-> 32,
              avgReward |-> Fraction(183, 10)]]

\* INSERT INTO bounties ... (sample data): reward_amount of each row
SampleRewardAmount ==
    [b \in DOMAIN SampleBounties |->
        IF b = "bounty_sample_1" THEN 25
        ELSE IF b = "bounty_sample_2" THEN 50 ELSE 30]

\* agent_executions has row level security and a SELECT policy only, so
\* an INSERT passes for the service role, which bypasses the policies.
ExecutionsInsertPolicy(uid) == uid = ServiceRole

\* the rows of agent_executions WHERE agent_id = agentId
ExecutionsOf(executions, agentId) ==
    SelectSeq(executions, LAMBDA e : e.agent_id = agentId)

\* COUNT(*) FILTER (WHERE success = true)
CountSuccess(rows) == Len(SelectSeq(rows, LAMBDA e : e.success))

\* The type of (COUNT(*) FILTER (...)::float / COUNT(*)::float) * 100:
\* float is double precision, and so are its quotient and product.
SuccessRateType == "double precision"

\* The functions named round that PostgreSQL defines are
\* round(double precision), round(numeric) and round(numeric, integer);
\* double precision is cast to numeric on assignment only, never
\* implicitly, so round(double precision, integer) resolves to no function.
RoundResolves(argType) == argType = "numeric"

\* ROUND(100 * successes / total, 2) where it resolves: half away from zero
RoundTo2(successes, total) ==
    Fraction((20000 * successes + total) \div (2 * total), 100)

\* the CASE of avgReward for one row: the reward of the row's bounty where
\* the run succeeded (NULL without a bounty), else 0
RewardCase(e) ==
    IF ~e.success THEN <<0>>
    ELSE IF e.bounty_id = NULL THEN <<>>
    ELSE <<SampleRewardAmount[e.bounty_id]>>

RECURSIVE RewardCases(_)
RewardCases(rows) ==
    IF rows = <<>> THEN <<>>
    ELSE RewardCase(Head(rows)) \o RewardCases(Tail(rows))

RECURSIVE SumSeq(_)
SumSeq(list) == IF list = <<>> THEN 0 ELSE Head(list) + SumSeq(Tail(list))

\* COALESCE(AVG(...), 0): AVG leaves the NULLs out
AvgReward(rows) ==
    LET cases == RewardCases(rows)
    IN  IF cases = <<>> THEN Fraction(0, 1)
        ELSE Fraction(SumSeq(cases), Len(cases))

\* update_agent_performance_metrics, AFTER INSERT ... FOR EACH ROW: one
\* UPDATE of the agent named by NEW, from all its rows (NEW included).
\* The statement is analysed when the function first runs it, and the
\* call of ROUND on a double precision value with a second argument
\* fails there with undefined_function (42883).
UpdateAgentPerformanceMetrics(metrics, executions, new) ==
    LET rows == ExecutionsOf(executions, new.agent_id)
    IN  IF ~RoundResolves(SuccessRateType)
        THEN [error |-> "42883", metrics |-> metrics]
        ELSE [error |-> NULL,
              metrics |->
                [metrics EXCEPT ![new.agent_id] =
                    [successRate |-> RoundTo2(CountSuccess(rows), Len(rows)),
                     totalRuns |-> Len(rows),
                     avgReward |-> AvgReward(rows)]]]

\* One INSERT INTO agent_executions with its trigger: the policy, the
\* foreign keys to agents and bounties, then the trigger; an error at any
\* point rolls the statement back. execution_id defaults to a fresh uuid.
InsertAgentExecution(executions, metrics, agentsTbl, bountiesTbl, uid, new) ==
    LET inserted == Append(executions, new)
        trigger == UpdateAgentPerformanceMetrics(metrics, inserted, new)
        kept == [executions |-> executions, metrics |-> metrics]
    IN  IF ~ExecutionsInsertPolicy(uid)
        THEN kept @@ [error |-> "42501"]
        ELSE IF new.agent_id \notin agentsTbl
                \/ (new.bounty_id # NULL
                    /\ new.bounty_id \notin DOMAIN bountiesTbl)
        THEN kept @@ [error |-> "23503"]
        ELSE IF trigger.error # NULL
        THEN kept @@ [error |-> trigger.error]
        ELSE [executions |-> inserted, metrics |-> trigger.metrics,
              error |-> NULL]

ExecutionBountyInputs == {NULL, "bounty_sample_1"}

InitExec ==
    /\ dbAgentExecutions = <<>>
    /\ dbAgentMetrics = SampleAgentMetrics
    /\ executionInserts = <<>>

\* a client inserts one row into agent_executions
InsertExecution(uid, agentId, bountyId, success) ==
    LET new == [agent_id |-> agentId, bounty_id |-> bountyId,
                success |-> success]
        result == InsertAgentExecution(dbAgentExecutions, dbAgentMetrics,
                                       dbAgents, dbBounties, uid, new)
    IN  /\ Len(executionInserts) < MaxInserts
        /\ dbAgentExecutions' = result.executions
        /\ dbAgentMetrics' = result.metrics
        /\ executionInserts' =
              Append(executionInserts,
                     [uid |-> uid, row |-> new, error |-> result.error])
        /\ UNCHANGED notExec

NextExec ==
    \E uid \in UidInputs, a \in AgentIdInputs, b \in ExecutionBountyInputs,
       s \in BOOLEAN : InsertExecution(uid, a, b, s)

(***************************************************************************)
(* REALTIME SUBSCRIPTIONS: supabase.ts, subscriptions                      *)
(***************************************************************************)
\* subscribeToUserAgents and subscribeToBounties have one shape: on every
\* change notification the handler starts a fetch of the whole list and
\* hands the result to the callback when the fetch resolves. The table is
\* held by its version, the number of changes committed: the list a fetch
\* returns is the table's content at the version the query read.

MaxChanges == 3

\* a fetch the handler has started: the query has not run yet
Issued == [stage |-> "issued", snapshot |-> 0]

InitSub ==
    subscription = [version |-> 0, unnotified |-> 0, refetches |-> <<>>,
                    delivered |-> <<>>]

\* a row of the table is inserted, updated or deleted; the realtime server
\* will notify the channel
TableChange ==
    /\ subscription.version < MaxChanges
    /\ subscription' = [subscription EXCEPT !.version = @ + 1,
                                            !.unnotified = @ + 1]
    /\ UNCHANGED notSub

\* () => { getAllBounties().then(callback) }: a notification arrives and
\* the handler starts a fetch, without waiting for the fetches before it
ChangeNotified ==
    /\ subscription.unnotified > 0
    /\ subscription' = [subscription EXCEPT
                           !.unnotified = @ - 1,
                           !.refetches = Append(@, Issued)]
    /\ UNCHANGED notSub

\* the SELECT of fetch i runs on the server
RefetchQueried(i) ==
    /\ subscription.refetches[i].stage = "issued"
    /\ subscription' = [subscription EXCEPT
                           !.refetches[i] =
                               [stage |-> "read",
                                snapshot |-> subscription.version]]
    /\ UNCHANGED notSub

\* the response of fetch i arrives: .then(callback) passes the list on
RefetchResolved(i) ==
    /\ subscription.refetches[i].stage = "read"
    /\ subscription' = [subscription EXCEPT
                           !.refetches[i].stage = "done",
                           !.delivered =
                               Append(@, [refetch |-> i,
                                          snapshot |-> subscription.refetches[i].snapshot])]
    /\ UNCHANGED notSub

NextSub ==
    \/ TableChange
    \/ ChangeNotified
    \/ \E i \in DOMAIN subscription.refetches : RefetchQueried(i)
    \/ \E i \in DOMAIN subscription.refetches : RefetchResolved(i)

(***************************************************************************)
(* FRAMES: services/farcaster.ts and components/FrameContainer.tsx         *)
(***************************************************************************)

MaxClicks == 3

\* the four screens of the type 'launch' | 'stake' | 'bounty' | 'dashboard'
FrameTypes == {"launch", "stake", "bounty", "dashboard"}

\* the strings a caller may pass where a screen or an action is expected
FrameActionInputs == FrameTypes \cup {"unknown"}

\* the button numbers a caller may pass: none of a frame, 1 to 4, one more
ButtonIndexInputs == 0..5

\* no frame: the state before the effect has run
NoFrame == [image |-> NULL, buttons |-> <<>>, inputText |-> FALSE, postUrl |-> NULL]

\* generateFrameMetadata(type): the image and the post URL without the base
\* URL, the action of each button, and whether there is an inputText
GenerateFrameMetadata(type) ==
    CASE type = "launch" ->
            [image |-> "/frames/launch-agent.png",
             buttons |-> <<"post", "post", "link">>,
             inputText |-> TRUE, postUrl |-> "/api/frame/launch"]
      [] type = "stake" ->
            [image |-> "/frames/stake-credits.png",
             buttons |-> <<"post", "post", "post", "link">>,
             inputText |-> FALSE, postUrl |-> "/api/frame/stake"]
      [] type = "bounty" ->
            [image |-> "/frames/bounty-default.png",
             buttons |-> <<"post", "link", "link">>,
             inputText |-> FALSE, postUrl |-> "/api/frame/bounty/undefined/claim"]
      [] OTHER ->
            [image |-> "/frames/dashboard.png",
             buttons |-> <<"post", "post", "post", "link">>,
             inputText |-> FALSE, postUrl |-> "/api/frame/action"]

\* const amounts = [20, 50, 100]
amounts == <<"20", "50", "100">>

\* `${amounts[buttonIndex - 1]}`: the text of the element, or of undefined
AmountText(buttonIndex) ==
    IF buttonIndex - 1 \in 0..(Len(amounts) - 1)
    THEN amounts[buttonIndex] ELSE "undefined"

\* a response without the property message
NoMessage == <<>>

\* handleFrameAction with the case 'stake' falling to the default
HandleFrameActionStakeless(action, buttonIndex) ==
    CASE action = "launch" /\ buttonIndex = 1 ->
            [frame |-> GenerateFrameMetadata("launch"),
             message |-> <<"Ready to launch your agent!">>]
      [] action = "launch" /\ buttonIndex = 2 ->
            [frame |-> GenerateFrameMetadata("stake"),
             message |-> <<"Stake tokens for better rates!">>]
      [] action = "launch" /\ buttonIndex \notin {1, 2} ->
            [frame |-> GenerateFrameMetadata("dashboard"), message |-> NoMessage]
      [] action = "bounty" ->
            [frame |-> GenerateFrameMetadata("dashboard"),
             message |-> <<"Bounty claimed! Your agent will start working on it.">>]
      [] OTHER ->
            [frame |-> GenerateFrameMetadata("dashboard"),
             message |-> <<"Welcome to AgentBloom!">>]

\* handleFrameAction(action, buttonIndex): the switch, the break of 'launch'
\* leading to the return after it
HandleFrameAction(action, buttonIndex) ==
    CASE action = "launch" /\ buttonIndex = 1 ->
            [frame |-> GenerateFrameMetadata("launch"),
             message |-> <<"Ready to launch your agent!">>]
      [] action = "launch" /\ buttonIndex = 2 ->
            [frame |-> GenerateFrameMetadata("stake"),
             message |-> <<"Stake tokens for better rates!">>]
      [] action = "launch" /\ buttonIndex \notin {1, 2} ->
            [frame |-> GenerateFrameMetadata("dashboard"), message |-> NoMessage]
      [] action = "stake" ->
            [frame |-> GenerateFrameMetadata("dashboard"),
             message |-> <<"Staking $", AmountText(buttonIndex),
                           " for credits...">>]
      [] action = "bounty" ->
            [frame |-> GenerateFrameMetadata("dashboard"),
             message |-> <<"Bounty claimed! Your agent will start working on it.">>]
      [] OTHER ->
            [frame |-> GenerateFrameMetadata("dashboard"),
             message |-> <<"Welcome to AgentBloom!">>]

NoFrameCall ==
    [fn |-> NULL, action |-> NULL, buttonIndex |-> 0,
     value |-> [frame |-> NoFrame, message |-> NoMessage]]

\* the last click of a button of the container: the frame it was on, the
\* button, and the action handleFrameAction was called with (NULL for a
\* link, which returns before the call)
NoClick == [displayed |-> NoFrame, buttonIndex |-> 0, action |-> NULL]

InitFrame ==
    /\ frameCall = NoFrameCall
    /\ frameContainer = [type |-> NULL, frameMetadata |-> NoFrame,
                         clicks |-> 0, click |-> NoClick, opened |-> 0]

\* a call farcasterService.handleFrameAction(action, buttonIndex)
HandleFrameActionCall(action, buttonIndex) ==
    /\ frameCall' = [fn |-> "handleFrameAction", action |-> action,
                     buttonIndex |-> buttonIndex,
                     value |-> HandleFrameAction(action, buttonIndex)]
    /\ UNCHANGED <<frameContainer, notFrame>>

\* a call farcasterService.generateFrameMetadata(type)
GenerateFrameMetadataCall(type) ==
    /\ frameCall' = [fn |-> "generateFrameMetadata", action |-> type,
                     buttonIndex |-> 0,
                     value |-> [frame |-> GenerateFrameMetadata(type),
                                message |-> NoMessage]]
    /\ UNCHANGED <<frameContainer, notFrame>>

\* the container is rendered with a type it did not have, and its effect
\* runs: useEffect(..., [type, data]) sets the frame of the type
FrameRender(type) ==
    /\ frameContainer.type # type
    /\ frameContainer' = [frameContainer EXCEPT
            !.type = type, !.frameMetadata = GenerateFrameMetadata(type)]
    /\ UNCHANGED <<frameCall, notFrame>>

\* handleButtonClick(buttonIndex), for a button that is rendered: a link is
\* opened; any other button calls handleFrameAction with the type prop and
\* shows the frame of the response
HandleButtonClick(buttonIndex) ==
    /\ frameContainer.frameMetadata # NoFrame
    /\ frameContainer.clicks < MaxClicks
    /\ buttonIndex \in 1..Len(frameContainer.frameMetadata.buttons)
    /\ LET button == frameContainer.frameMetadata.buttons[buttonIndex]
           response == HandleFrameAction(frameContainer.type, buttonIndex)
       IN  frameContainer' =
             IF button = "link"
             THEN [frameContainer EXCEPT
                     !.clicks = @ + 1, !.opened = @ + 1,
                     !.click = [displayed |-> frameContainer.frameMetadata,
                                buttonIndex |-> buttonIndex, action |-> NULL]]
             ELSE [frameContainer EXCEPT
                     !.clicks = @ + 1,
                     !.frameMetadata = response.frame,
                     !.click = [displayed |-> frameContainer.frameMetadata,
                                buttonIndex |-> buttonIndex,
                                action |-> frameContainer.type]]
    /\ UNCHANGED <<frameCall, notFrame>>

NextFrame ==
    \/ \E a \in FrameActionInputs, n \in ButtonIndexInputs :
            HandleFrameActionCall(a, n)
    \/ \E t \in FrameActionInputs : GenerateFrameMetadataCall(t)
    \/ \E t \in FrameTypes : FrameRender(t)
    \/ \E n \in ButtonIndexInputs : HandleButtonClick(n)

(***************************************************************************)
(* ANALYTICS DASHBOARD: components/AnalyticsDashboard.tsx                  *)
(***************************************************************************)

MaxLoads == 2

\* useUser().user as the dashboard reads it: null, or a user with its
\* stakedAmount in hundredths of a dollar (0 at creation, 20 after a stake)
NoDashUser == [present |-> FALSE, stakedAmount |-> 0]

DashUserInputs ==
    {NoDashUser, [present |-> TRUE, stakedAmount |-> 0],
     [present |-> TRUE, stakedAmount |-> 2000]}

\* the lists getUserTransactions may resolve with: none, no 'spend', one
\* 'spend', both types
DashTransactionInputs ==
    {<<>>,
     <<[type |-> "earn", amount |-> 30]>>,
     <<[type |-> "spend", amount |-> 10]>>,
     <<[type |-> "spend", amount |-> 10], [type |-> "earn", amount |-> 30]>>}

\* calculateROI returned null, or was not called
NoDashROI ==
    [called |-> FALSE,
     value |-> [stakingROI |-> F64NaN, directPaymentCost |-> F64NaN,
                savings |-> F64NaN, breakEvenPoint |-> F64NaN]]

\* transactions.filter(t => t.type === 'spend')
\*     .reduce((sum, t) => sum + t.amount, 0)
RECURSIVE CreditsUsedOf(_)
CreditsUsedOf(transactions) ==
    IF transactions = <<>> THEN 0
    ELSE (IF Head(transactions).type = "spend" THEN Head(transactions).amount
          ELSE 0) + CreditsUsedOf(Tail(transactions))

\* calculateROI(): null without a user or without transactions, else
\* calculateStakingROI(user.stakedAmount, creditsUsed, 30)
CalculateROI(u, transactions) ==
    IF ~u.present \/ Len(transactions) = 0 THEN NoDashROI
    ELSE [called |-> TRUE,
          value |-> StakingROI64(FromHundredths(u.stakedAmount),
                                 F64FromDecimal(CreditsUsedOf(transactions), 1),
                                 F64FromDecimal(30, 1))]

\* the component before it is mounted; useState(true) for isLoading
InitDash ==
    dashboard = [mounted |-> FALSE, user |-> NoDashUser, isLoading |-> TRUE,
                 transactions |-> <<>>, performanceMetrics |-> FALSE,
                 marketInsights |-> FALSE, loads |-> <<>>,
                 rendered |-> FALSE, roi |-> NoDashROI]

\* loadAnalytics() up to its first await, in a render whose user is u: it
\* returns at once without a user
LoadAnalytics(d, u) ==
    IF ~u.present THEN d
    ELSE [d EXCEPT !.isLoading = TRUE,
                   !.loads = Append(@, [stage |-> "transactions"])]

\* loadAnalytics() with the early return left out
LoadAnalyticsAlways(d, u) ==
    [d EXCEPT !.isLoading = TRUE,
              !.loads = Append(@, [stage |-> "transactions"])]

\* the calls of loadAnalytics that have not reached their finally block
InFlight == {i \in 1..Len(dashboard.loads) : dashboard.loads[i].stage # "done"}

\* the component is mounted, and its effect runs
DashMount(u) ==
    /\ ~dashboard.mounted
    /\ dashboard' = LoadAnalytics([dashboard EXCEPT !.mounted = TRUE,
                                                    !.user = u], u)
    /\ UNCHANGED notDash

\* the user of the store changes (connect, disconnect, updateUser); the
\* effect runs again, user being one of its dependencies
DashUserChange(u) ==
    /\ dashboard.mounted
    /\ u # dashboard.user
    /\ Len(dashboard.loads) < MaxLoads
    /\ dashboard' = LoadAnalytics([dashboard EXCEPT !.user = u,
                                                    !.rendered = FALSE], u)
    /\ UNCHANGED notDash

\* agents or bounties of the store change; the effect runs again
DashListsChange ==
    /\ dashboard.mounted
    /\ Len(dashboard.loads) < MaxLoads
    /\ dashboard' = LoadAnalytics([dashboard EXCEPT !.rendered = FALSE],
                                  dashboard.user)
    /\ UNCHANGED notDash

\* await creditService.getUserTransactions(...) resolves: setTransactions
TransactionsResolved(i, list) ==
    /\ i \in InFlight
    /\ dashboard.loads[i].stage = "transactions"
    /\ dashboard' = [dashboard EXCEPT
            !.transactions = list,
            !.loads[i].stage = "metrics",
            !.rendered = FALSE]
    /\ UNCHANGED notDash

\* await creditService.getUserTransactions(...) rejects: catch, finally
TransactionsRejected(i) ==
    /\ i \in InFlight
    /\ dashboard.loads[i].stage = "transactions"
    /\ dashboard' = [dashboard EXCEPT
            !.isLoading = FALSE,
            !.loads[i].stage = "done",
            !.rendered = FALSE]
    /\ UNCHANGED notDash

\* await analyticsService.getUserPerformanceMetrics(...) resolves
MetricsResolved(i) ==
    /\ i \in InFlight
    /\ dashboard.loads[i].stage = "metrics"
    /\ dashboard' = [dashboard EXCEPT
            !.performanceMetrics = TRUE,
            !.loads[i].stage = "insights",
            !.rendered = FALSE]
    /\ UNCHANGED notDash

\* await analyticsService.getMarketInsights() resolves; finally
InsightsResolved(i) ==
    /\ i \in InFlight
    /\ dashboard.loads[i].stage = "insights"
    /\ dashboard' = [dashboard EXCEPT
            !.marketInsights = TRUE,
            !.isLoading = FALSE,
            !.loads[i].stage = "done",
            !.rendered = FALSE]
    /\ UNCHANGED notDash

\* the component renders its state: the spinner, "Analytics Unavailable",
\* or the content, for which it calls calculateROI()
DashRender ==
    /\ dashboard.mounted
    /\ ~dashboard.rendered
    /\ dashboard' = [dashboard EXCEPT
            !.rendered = TRUE,
            !.roi = IF ~dashboard.isLoading /\ dashboard.performanceMetrics
                       /\ dashboard.marketInsights
                    THEN CalculateROI(dashboard.user, dashboard.transactions)
                    ELSE NoDashROI]
    /\ UNCHANGED notDash

\* the steps the event loop takes by itself: settled promises and rendering
DashProgress ==
    \/ \E i \in 1..MaxLoads, list \in DashTransactionInputs :
            TransactionsResolved(i, list)
    \/ \E i \in 1..MaxLoads : MetricsResolved(i)
    \/ \E i \in 1..MaxLoads : InsightsResolved(i)
    \/ DashRender

NextDash ==
    \/ \E u \in DashUserInputs : DashMount(u)
    \/ \E u \in DashUserInputs : DashUserChange(u)
    \/ DashListsChange
    \/ \E i \in 1..MaxLoads : TransactionsRejected(i)
    \/ DashProgress
NextClaim ==
    /\ \/ \E c \in ClaimClients, uid \in UidInputs, b \in BountyIdInputs,
             a \in AgentIdInputs : ClaimIssue(c, uid, b, a)
       \/ \E c \in ClaimClients : ClaimExec(c)
    /\ UNCHANGED notDB

NextBounty ==
    \/ NextClaim
    \/ /\ \E uid \in UidInputs, b \in BountyIdInputs, s \in BountyStatus :
             UpdateBounty(uid, b, s)
       /\ UNCHANGED notDB

NextAssign ==
    \/ NextClaim
    \/ /\ \E uid \in UidInputs, a \in AgentIdInputs : AgentDelete(uid, a)
       /\ UNCHANGED notDB

NextUsers ==
    \/ /\ \/ \E s \in Sessions, uid \in UidInputs, w \in WalletInputs :
                SessionGetUser(s, uid, w)
          \/ \E s \in Sessions, uid \in UidInputs, w \in WalletInputs :
                SessionCreateUser(s, uid, w)
       /\ UNCHANGED notDB
    \/ Tick

NextCredit ==
    \/ /\ \E uid \in UidInputs, u \in UserIdInputs, t \in TransactionTypes,
             a \in AmountInputs : InsertTransaction(uid, u, t, a)
       /\ UNCHANGED notDB
    \/ Tick

Init == InitDB /\ InitStore /\ InitAI /\ InitAnalytics /\ InitExec
        /\ InitSub /\ InitDouble /\ InitFrame /\ InitDash

\* claimBounty calls only, in every interleaving
SpecClaim == Init /\ [][NextClaim]_vars

\* claimBounty calls interleaved with status updates
SpecBounty == Init /\ [][NextBounty]_vars

\* getUser and createUser calls of several clients
SpecUsers == Init /\ [][NextUsers]_vars

\* inserts into credit_transactions
SpecCredit == Init /\ [][NextCredit]_vars


\* the wallet, the store and the handlers of AgentLaunch and CreditManager
SpecStore == Init /\ [][NextStore]_vars


\* one call of a text-completion wrapper, with every answer of the endpoint
SpecAI == Init /\ [][NextAI]_vars

\* getUserPerformanceMetrics on every list of up to MaxAgents agents
SpecMetrics == Init /\ [][NextMetrics]_vars

\* getUserPerformanceMetrics on agents, bounties and transactions
SpecActivity == Init /\ [][NextActivity]_vars

\* calls of calculateStakingROI
SpecROI == Init /\ [][NextROI]_vars

\* inserts into agent_executions, each with its trigger
SpecExec == Init /\ [][NextExec]_vars

\* getUserPerformanceMetrics on feeds longer than the limit
SpecFeed == Init /\ [][NextFeed]_vars

\* one realtime subscription while its table changes
SpecSub == Init /\ [][NextSub]_vars

\* the handlers of AgentLaunch that add agents
SpecLaunch == Init /\ [][NextLaunch]_vars

\* calls of calculateStakingROI, in double arithmetic
SpecROI64 == Init /\ [][NextROI64]_vars

\* calls of the frame functions, and clicks in a FrameContainer
SpecFrame == Init /\ [][NextFrame]_vars

\* the analytics dashboard: its loads and what it renders
SpecDash == Init /\ [][NextDash]_vars

\* the same, where every request is answered: a pending request that is not
\* rejected resolves, and a changed state is rendered
SpecDashLive ==
    /\ Init /\ [][NextDash]_vars
    /\ \A i \in 1..MaxLoads :
          WF_vars(\/ \E list \in DashTransactionInputs :
                        TransactionsResolved(i, list)
                  \/ TransactionsRejected(i)
                  \/ MetricsResolved(i)
                  \/ InsightsResolved(i))
    /\ WF_vars(DashRender)

\* credit launches, stakes and purchases on one balance
SpecBalance == Init /\ [][NextBalance]_vars

\* addAgent and addBounty calls, several of them at one clock reading
SpecIds == Init /\ [][NextIds]_vars

\* claimBounty calls interleaved with deleteAgent calls
SpecAssign == Init /\ [][NextAssign]_vars
(***************************************************************************)
(* Claims on claimBounty                                                   *)
(***************************************************************************)

\* The step in which the database runs client c's claimBounty statement
ClaimStep(c) == claimCalls[c].pc = "sent" /\ claimCalls'[c].pc = "done"

\* C1: claimBounty(bountyId, agentId) changes a bounty, to status
\* 'inProgress' with assignedAgentId = agentId, only when that bounty's
\* status was 'open' immediately before the update; on a bounty that is
\* 'inProgress' or 'closed', or on an unknown bountyId, every bounty record
\* stays as it was and the caller gets an error and no bounty.
C1_ClaimOnlyWhenOpen ==
    [][\A c \in ClaimClients : ClaimStep(c) =>
        LET bid == claimCalls[c].bountyId
            aid == claimCalls[c].agentId
        IN  /\ DOMAIN dbBounties' = DOMAIN dbBounties
            /\ \A x \in DOMAIN dbBounties :
                  dbBounties'[x] # dbBounties[x] =>
                      /\ x = bid
                      /\ dbBounties[x].status = "open"
                      /\ dbBounties'[x].status = "inProgress"
                      /\ dbBounties'[x].assigned_agent_id = aid
                      /\ dbBounties'[x].creator_id = dbBounties[x].creator_id
            /\ (bid \notin DOMAIN dbBounties \/ dbBounties[bid].status # "open") =>
                  /\ dbBounties' = dbBounties
                  /\ claimCalls'[c].error # NULL
                  /\ claimCalls'[c].data = NULL
      ]_vars

\* C1 witness: one claim of a bounty succeeded, the bounty was then closed,
\* and a second claim of it came back with an error.
C1_Witness ==
    \E c1, c2 \in ClaimClients :
        /\ c1 # c2
        /\ claimCalls[c1].pc = "done" /\ claimCalls[c1].error = NULL
        /\ claimCalls[c1].data = claimCalls[c1].bountyId
        /\ claimCalls[c2].pc = "done" /\ claimCalls[c2].error = "PGRST116"
        /\ claimCalls[c2].bountyId = claimCalls[c1].bountyId
        /\ dbBounties[claimCalls[c1].bountyId].status = "closed"
        /\ dbBounties[claimCalls[c1].bountyId].assigned_agent_id = claimCalls[c1].agentId

\* The claimBounty calls on bounty b that returned a bounty
ClaimWinners(b) ==
    {c \in ClaimClients : /\ claimCalls[c].pc = "done"
                          /\ claimCalls[c].error = NULL
                          /\ claimCalls[c].bountyId = b}

\* C2: in every interleaving of claimBounty calls on the same open bounty,
\* at most one call succeeds, the bounty's assignedAgentId is then the agent
\* of the call that succeeded, and no later claim overwrites it.
C2_AtMostOneClaimWins ==
    \A b \in DOMAIN dbBounties :
        /\ Cardinality(ClaimWinners(b)) <= 1
        /\ \A c \in ClaimWinners(b) :
              /\ dbBounties[b].status = "inProgress"
              /\ dbBounties[b].assigned_agent_id = claimCalls[c].agentId
        /\ ClaimWinners(b) = {} => dbBounties[b] = SampleBounties[b]

\* C2 witness: two claims of one bounty for different agents have both
\* returned, one with the bounty and one with an error.
C2_Witness ==
    \E c1, c2 \in ClaimClients :
        /\ c1 # c2
        /\ claimCalls[c1].pc = "done" /\ claimCalls[c2].pc = "done"
        /\ claimCalls[c1].bountyId = claimCalls[c2].bountyId
        /\ claimCalls[c1].agentId # claimCalls[c2].agentId
        /\ claimCalls[c2].agentId \in dbAgents
        /\ claimCalls[c1].uid = claimCalls[c2].uid
        /\ claimCalls[c1].error = NULL
        /\ claimCalls[c2].error = "PGRST116"
        /\ dbBounties[claimCalls[c1].bountyId].assigned_agent_id = claimCalls[c1].agentId

(***************************************************************************)
(* Claims on the users table                                               *)
(***************************************************************************)

\* C9: after any sequence and interleaving of getUser and createUser calls,
\* also when two clients both find no user for a wallet and then both
\* create one, the users table holds at most one record per wallet address.
C9_OneRecordPerWallet ==
    \A u1, u2 \in DOMAIN dbUsers :
        dbUsers[u1].wallet_address = dbUsers[u2].wallet_address => u1 = u2

\* C9 witness: two clients were both told by getUser that there is no user,
\* both called createUser for one wallet at different times, the second was
\* refused, and the table holds the wallet.
C9_Witness ==
    \E s1, s2 \in Sessions :
        /\ s1 # s2
        /\ userSessions[s1].got = "null" /\ userSessions[s2].got = "null"
        /\ userSessions[s1].createWallet # NULL
        /\ userSessions[s2].createWallet = userSessions[s1].createWallet
        /\ userSessions[s1].created = "ok"
        /\ userSessions[s2].created = "23505 users_wallet_address_key"
        /\ \E u \in DOMAIN dbUsers :
              dbUsers[u].wallet_address = userSessions[s1].createWallet

(***************************************************************************)
(* Claims on credit_transactions                                           *)
(***************************************************************************)

\* The sum of the amounts of the rows `ids` of credit_transactions
RECURSIVE SumAmounts(_)
SumAmounts(ids) ==
    IF ids = {} THEN 0
    ELSE LET i == CHOOSE i \in ids : TRUE
         IN dbCreditTransactions[i].amount + SumAmounts(ids \ {i})

\* The rows of user u with a type in `types`
RowsOf(u, types) ==
    {i \in DOMAIN dbCreditTransactions :
        /\ dbCreditTransactions[i].user_id = u
        /\ dbCreditTransactions[i].type \in types}

\* C10: after any sequence of credit_transactions inserts, a user's
\* credit_balance is its initial value plus the 'earn' and 'refund' amounts
\* minus the 'spend' amounts, and staked_amount is its initial value plus
\* ('stake' amounts minus 'unstake' amounts) / 100; so 'stake' and 'unstake'
\* rows do not move credit_balance, and the others do not move staked_amount.
C10_BalancesFollowTransactions ==
    \A u \in DOMAIN dbUsers :
        /\ dbUsers[u].credit_balance =
              SampleUsers[u].credit_balance
              + SumAmounts(RowsOf(u, {"earn", "refund"}))
              - SumAmounts(RowsOf(u, {"spend"}))
        /\ 100 * (dbUsers[u].staked_amount - SampleUsers[u].staked_amount) =
              DecimalScale * (SumAmounts(RowsOf(u, {"stake"}))
                              - SumAmounts(RowsOf(u, {"unstake"})))

\* C10 witness: a user has a 'refund', a 'spend' and a 'stake' row.
C10_Witness ==
    /\ RowsOf("user_sample_1", {"refund"}) # {}
    /\ RowsOf("user_sample_1", {"spend"}) # {}
    /\ RowsOf("user_sample_1", {"stake"}) # {}
    /\ dbUsers["user_sample_1"].staked_amount # SampleUsers["user_sample_1"].staked_amount


\* C15: after any sequence of inserts into credit_transactions, a spend
\* larger than the user's balance included, users.credit_balance is never
\* below 0.
C15_BalanceNeverNegative ==
    \A u \in DOMAIN dbUsers : dbUsers[u].credit_balance >= 0

\* bounty b was claimed: some claimBounty call returned its row
EverClaimed(b) ==
    \E c \in ClaimClients : claimCalls[c].pc = "done" /\ claimCalls[c].data = b

\* C26: after any sequence of claimBounty and deleteAgent calls every
\* bounty with status 'inProgress' has an assigned agent identifier that
\* refers to an existing agent, and every bounty with status 'open' that was
\* never claimed has none.
C26_InProgressHasExistingAgent ==
    \A b \in DOMAIN dbBounties :
        /\ dbBounties[b].status = "inProgress"
           => /\ dbBounties[b].assigned_agent_id # NULL
              /\ dbBounties[b].assigned_agent_id \in dbAgents
        /\ (dbBounties[b].status = "open" /\ ~EverClaimed(b))
           => dbBounties[b].assigned_agent_id = NULL
(***************************************************************************)
(* Claims on the in-memory store                                           *)
(***************************************************************************)

\* C3: no interleaving of UI handlers and payment callbacks loses an update
\* to the user record: once a stake of $a, a purchase of c credits and one
\* 10-credit launch have all completed successfully, whatever their overlap,
\* creditBalance is its starting value + 2.5*a + c - 10 and stakedAmount is
\* its starting value + a.
C3_NoLostUpdate ==
    (/\ user # NoUser
     /\ completed.stakes = 1 /\ completed.purchases = 1 /\ completed.launches = 1)
    => /\ user.creditBalance = StartingCredits + (5 * completed.staked) \div 2
                               + completed.purchased - LaunchCost
       /\ user.stakedAmount = 0 + completed.staked


\* the awaiting handlers that are direct launches
DirectLaunches == {i \in DOMAIN pending : pending[i].op = "handleDirectLaunch"}

\* agents' is agents with one agent more, the one a launch adds
OneAgentAdded ==
    /\ Len(agents') = Len(agents) + 1
    /\ SubSeq(agents', 1, Len(agents)) = agents
    /\ LET added == agents'[Len(agents')]
       IN  /\ added.status = "active"
           /\ added.successRate = 0
           /\ added.totalRuns = 0
           /\ added.avgReward = 0

\* one step of a direct launch: started, paid, or failed
DirectLaunchStep ==
    /\ HandleDirectLaunch => agents' = agents /\ user' = user
    /\ \A i \in DirectLaunches :
          /\ PaymentResolved(i) => OneAgentAdded /\ user' = user
          /\ PaymentFailed(i) => agents' = agents /\ user' = user

\* C17: handleDirectLaunch adds an agent to the store only once
\* createSession has resolved, and then exactly one agent with status
\* active and the three performance metrics 0; when createSession fails no
\* agent is added and the user record is unchanged.
C17_DirectLaunchAddsAfterPayment == [][DirectLaunchStep]_vars

\* a direct launch was paid and its agent is the last of the store
C17_Witness ==
    /\ user # NoUser
    /\ isLaunching = FALSE
    /\ pending = <<>>
    /\ opsStarted > 0
    /\ Len(agents) = 3
    /\ agents[3].status = "active" /\ agents[3].totalRuns = 0
    /\ user.creditBalance = StartingCredits

\* C22: whenever the wallet is disconnected and the connection effect has
\* run, user is null and the agents and bounties arrays are empty, and they
\* stay so until the wallet reconnects, also when a payment started before
\* the disconnect resolves afterwards and its handler calls addAgent or
\* updateUser.
C22_DisconnectedStoreIsEmpty ==
    (~isConnected /\ ~effectDue)
    => (user = NoUser /\ agents = <<>> /\ bounties = <<>>)

\* C23: whenever the wallet is connected, the effects have run and user is
\* non-null, user.walletAddress is the connected address, also after the
\* connected account changed without a disconnect in between.
C23_UserFollowsConnectedAddress ==
    (isConnected /\ ~effectDue /\ user # NoUser)
    => user.walletAddress = address

\* a step of handleCreditLaunch: it counts one more launch
CreditLaunchStep == completed'.launches = completed.launches + 1

\* C27: in the in-memory store user.creditBalance is never negative, in
\* every interleaving of credit launches, stakes and purchases that starts
\* with the initial 100 credits: a credit launch is carried out only when
\* the balance it reads is at least 10, and it subtracts exactly 10.
C27_BalanceNeverNegative ==
    /\ [](user.creditBalance >= 0)
    /\ [][CreditLaunchStep
            => /\ user.creditBalance >= LaunchCost
               /\ user'.creditBalance = user.creditBalance - LaunchCost]_vars

\* the balance is spent to the last credit: the form is filled, the view
\* and the method are those of a credit launch, and the guard refuses it
C27_Witness ==
    /\ user # NoUser /\ user.creditBalance < LaunchCost
    /\ completed.launches >= StartingCredits \div LaunchCost
    /\ currentView = "launch" /\ launchMethod = "stake" /\ formFilled
    /\ ~effectDue

\* the values of field f in the records of list are pairwise distinct
Distinct(list, f) ==
    \A i, j \in DOMAIN list : list[i][f] = list[j][f] => i = j

\* C28: after any sequence of addAgent and addBounty calls all agentId
\* values of the agents array are pairwise distinct and all bountyId values
\* of the bounties array are pairwise distinct, also when two additions
\* happen within the same clock millisecond.
C28_IdentifiersDistinct ==
    Distinct(agents, "agentId") /\ Distinct(bounties, "bountyId")
(***************************************************************************)
(* Claims on the text-completion wrappers                                  *)
(***************************************************************************)

\* the response text of the finished call
AnsweredText == ResponseText(aiCall.completion)

\* the text is not JSON, or is the JSON literal null
NotUsableJson(text) == JsonParse(text).error \/ text = <<"null">>

\* C4: for optimizePrompt, generatePerformanceInsights and
\* validateBountySubmission, whenever the completion request succeeds and
\* the returned text is not parseable JSON (the empty text and the literal
\* null included), the call returns its hard-coded fallback object and does
\* not raise.
C4_FallbackOnUnparseable ==
    (/\ aiCall.stage = "done"
     /\ aiCall.fn # "executeAgent"
     /\ aiCall.resolved
     /\ NotUsableJson(AnsweredText))
    => /\ ~aiCall.outcome.threw
       /\ aiCall.outcome.value = Fallback(aiCall.fn, aiCall.currentPrompt)

\* a call answered with the literal null has returned the fallback
C4_Witness ==
    /\ aiCall.stage = "done"
    /\ aiCall.resolved
    /\ aiCall.completion.choices # <<>>
    /\ AnsweredText = <<"null">>
    /\ aiCall.fn = "validateBountySubmission"
    /\ aiCall.outcome.value = Fallback(aiCall.fn, aiCall.currentPrompt)


\* the request of the finished call failed, or was never sent
RequestFailed == aiCall.stage = "done" /\ ~aiCall.resolved

\* the error outcome of the finished call: a raised error labelled with
\* the operation's name and the original message, or for executeAgent a
\* result with success = false
ErrorOutcome ==
    IF aiCall.fn = "executeAgent"
    THEN ~aiCall.outcome.threw /\ ~aiCall.outcome.value.success
    ELSE \E message \in ErrorInputs :
            aiCall.outcome = Thrown(aiCall.fn, message)

\* C12: each invocation of optimizePrompt, generatePerformanceInsights,
\* validateBountySubmission or executeAgent issues exactly one request to
\* the completion endpoint, and when the request fails the invocation ends
\* in an error outcome without a second request.
C12_ExactlyOneRequest ==
    aiCall.stage = "done" =>
        /\ aiCall.requests = 1
        /\ RequestFailed => ErrorOutcome

\* C18: executeAgent never raises to its caller: on a failure of template
\* processing or of the completion call it returns success = false, the
\* empty string as output, tokensUsed = 0 and a non-empty error message;
\* on success it returns success = true with no error field.
C18_ExecuteAgentNeverRaises ==
    (aiCall.stage = "done" /\ aiCall.fn = "executeAgent")
    => /\ ~aiCall.outcome.threw
       /\ IF aiCall.resolved
          THEN /\ aiCall.outcome.value.success
               /\ "error" \notin DOMAIN aiCall.outcome.value
          ELSE /\ ~aiCall.outcome.value.success
               /\ aiCall.outcome.value.output = <<>>
               /\ aiCall.outcome.value.tokensUsed = 0
               /\ aiCall.outcome.value.error # ""

\* executeAgent has returned a failure for a value thrown that is not an
\* Error
C18_Witness ==
    /\ aiCall.stage = "done"
    /\ aiCall.fn = "executeAgent"
    /\ aiCall.requests = 1
    /\ ~aiCall.resolved
    /\ ~aiCall.outcome.value.success
    /\ aiCall.outcome.value.error = "Unknown error occurred"

\* C20: the score validateBountySubmission returns is always a number
\* between 0 and 100 inclusive, for every parseable response whatever its
\* score field holds (missing, negative, above 100, not a number), and is
\* 50 in the parse-failure fallback.
C20_ScoreWithinRange ==
    (/\ aiCall.stage = "done"
     /\ aiCall.fn = "validateBountySubmission"
     /\ aiCall.resolved)
    => /\ ~aiCall.outcome.threw
       /\ ~aiCall.outcome.value.score.nan
       /\ aiCall.outcome.value.score.n \in 0..100
       /\ NotUsableJson(AnsweredText) => aiCall.outcome.value.score = Num(50)
(***************************************************************************)
(* Claims on the analytics service                                         *)
(***************************************************************************)

\* timestamp a is at or after timestamp b; no order holds with a timestamp
\* that no date can be read from
AtOrAfter(a, b) ==
    /\ ~DateGetTime(a).nan
    /\ ~DateGetTime(b).nan
    /\ DateGetTime(a).n >= DateGetTime(b).n

\* C5: for every input (any numbers of agents, bounties and transactions,
\* each with any timestamps) the recentActivity list returned by
\* getUserPerformanceMetrics has at most 10 entries, and each entry's
\* timestamp is greater than or equal to that of the entry after it.
C5_RecentActivitySorted ==
    performanceMetrics.returned
    => /\ Len(performanceMetrics.recentActivity) <= 10
       /\ \A i \in 1..(Len(performanceMetrics.recentActivity) - 1) :
             AtOrAfter(performanceMetrics.recentActivity[i].timestamp,
                       performanceMetrics.recentActivity[i + 1].timestamp)

\* the successRate values of the argument agents
Rate(i) == mAgents[i].successRate

\* C6: for every non-empty agent list topPerformingAgent is an element of
\* the list whose successRate is at least every other agent's, and among the
\* agents that share the maximum it is the one at the lowest index; for the
\* empty list it is null.
C6_TopAgentIsFirstMaximum ==
    performanceMetrics.returned
    => IF mAgents = <<>>
       THEN performanceMetrics.topPerformingAgent = NoAgent
       ELSE \E i \in DOMAIN mAgents :
               /\ performanceMetrics.topPerformingAgent = mAgents[i]
               /\ \A j \in DOMAIN mAgents : Rate(j) <= Rate(i)
               /\ \A j \in 1..(i - 1) : Rate(j) < Rate(i)

\* the maximum is shared and the first of its holders was returned
C6_Witness ==
    /\ performanceMetrics.returned
    /\ Len(mAgents) >= 3
    /\ Rate(1) < Rate(2)
    /\ Rate(3) = Rate(2)
    /\ \A j \in DOMAIN mAgents : Rate(j) <= Rate(2)
    /\ performanceMetrics.topPerformingAgent = mAgents[2]

\* the sum of the argument agents' successRate values
RECURSIVE RateSum(_)
RateSum(n) == IF n = 0 THEN 0 ELSE Rate(n) + RateSum(n - 1)

\* the double x, multiplied by the integer n > 0 and rounded to the nearest
\* double, is the integer total: with x = (total * 2^scale + err) / (n * 2^scale)
\* the exact product is total + err / 2^scale, which rounds to total when it
\* is within half the distance from total to its neighbouring double
TimesIs(x, n, total) ==
    IF x = Zero THEN total = 0
    ELSE /\ x.num = total
         /\ x.den = n
         /\ \/ x.err = 0
            \/ LET room == (Exponent(total, 1) - ((Precision - 1) - x.scale)) - 1
                           - (IF x.err < 0 /\ Pow2(Exponent(total, 1)) = total
                              THEN 1 ELSE 0)
               IN  room >= 0 /\ Abs(x.err) <= Pow2(room)

CappedCredits(stakedAmount, creditsUsed) ==
    IF creditsUsed <= 24 * stakedAmount THEN creditsUsed ELSE 24 * stakedAmount

Feed == Activities(mAgents, mBounties, mTransactions)

\* the entries of the feed with the given type and id
FeedEntries(type, id) ==
    {k \in DOMAIN Feed : Feed[k].type = type /\ Feed[k].id = id}

ClosedBounties == {i \in DOMAIN mBounties : mBounties[i].status = "closed"}

EarnTransactions == {i \in DOMAIN mTransactions : mTransactions[i].type = "earn"}

Min(a, b) == IF a < b THEN a ELSE b

\* C13: before truncation the feed holds exactly one agent_created event
\* per agent, one bounty_completed event per closed bounty (its value the
\* rewardAmount) and one credits_earned event per earn transaction (its
\* value the amount), and nothing else; the returned recentActivity has
\* length min(10, agents + closed bounties + earn transactions).
C13_FeedHoldsOneEventPerSource ==
    performanceMetrics.returned
    => /\ \A i \in DOMAIN mAgents :
             Cardinality(FeedEntries("agent_created",
                                     "agent_" \o mAgents[i].agentId)) = 1
       /\ \A i \in ClosedBounties :
             /\ Cardinality(FeedEntries("bounty_completed",
                                        "bounty_" \o mBounties[i].bountyId)) = 1
             /\ \A k \in FeedEntries("bounty_completed",
                                     "bounty_" \o mBounties[i].bountyId) :
                   Feed[k].value = mBounties[i].rewardAmount
       /\ \A i \in EarnTransactions :
             /\ Cardinality(FeedEntries("credits_earned",
                                        "earn_" \o mTransactions[i].transactionId)) = 1
             /\ \A k \in FeedEntries("credits_earned",
                                     "earn_" \o mTransactions[i].transactionId) :
                   Feed[k].value = mTransactions[i].amount
       /\ Len(Feed) = Len(mAgents) + Cardinality(ClosedBounties)
                        + Cardinality(EarnTransactions)
       /\ Len(performanceMetrics.recentActivity) = Min(RecentActivityLimit, Len(Feed))
       /\ \A k \in DOMAIN performanceMetrics.recentActivity :
             \E j \in DOMAIN Feed : performanceMetrics.recentActivity[k] = Feed[j]

\* a feed of more than 10 events, a closed bounty of another user and a
\* spend transaction among the inputs, was returned cut to 10
C13_Witness ==
    /\ performanceMetrics.returned
    /\ Len(Feed) > RecentActivityLimit
    /\ Len(performanceMetrics.recentActivity) = RecentActivityLimit
    /\ \E i \in ClosedBounties : mBounties[i].creatorId # MetricsUserId
    /\ \E i \in DOMAIN mTransactions : mTransactions[i].type = "spend"
    /\ EarnTransactions # {}

OwnBounties == {i \in DOMAIN mBounties : mBounties[i].creatorId = MetricsUserId}

\* C14: totalBounties is the number of bounties whose creatorId is userId
\* and completedBounties the number of those whose status is closed;
\* bounties of other users count towards neither, so completedBounties is
\* at most totalBounties.
C14_BountyCountsAreOwn ==
    performanceMetrics.returned
    => /\ performanceMetrics.totalBounties = Cardinality(OwnBounties)
       /\ performanceMetrics.completedBounties =
             Cardinality(OwnBounties \cap ClosedBounties)
       /\ performanceMetrics.completedBounties <= performanceMetrics.totalBounties

\* metrics were returned for a closed bounty of another user next to an
\* open bounty of the user: one bounty counted, none completed
C14_Witness ==
    /\ performanceMetrics.returned
    /\ \E i \in ClosedBounties : i \notin OwnBounties
    /\ \E i \in OwnBounties : i \notin ClosedBounties
    /\ performanceMetrics.totalBounties = 1
    /\ performanceMetrics.completedBounties = 0

\* the arguments of the last call, as the doubles the function received
StakedAmount64 == FromHundredths(roi64.stakedAmount)

CreditsUsed64 == FromHundredths(roi64.creditsUsed)

\* creditsUsed <= 24 * stakedAmount, in exact arithmetic on the arguments
WithinStake ==
    LET a == F64Aligned(CreditsUsed64, StakedAmount64)
    IN  BigCmp(a.x, BigMul(a.y, BigFromInt(24))) <= 0

\* creditsUsed <= stakedAmount / 0.05 * 1.2 as the function computes it
WithinComputedStake ==
    ~F64Less(roi64.stakingCredits, CreditsUsed64)

SavingsPositive ==
    ~roi64.value.savings.neg /\ ~F64IsZero(roi64.value.savings)

\* C19 as stated: for all non-negative stakedAmount and creditsUsed the
\* savings is never negative, is exactly 0 whenever creditsUsed <= 24 *
\* stakedAmount, and is positive only when creditsUsed exceeds 24 *
\* stakedAmount.
C19_SavingsZeroWithinStake ==
    roi64.returned
    => /\ ~roi64.value.savings.neg
       /\ WithinStake => F64IsZero(roi64.value.savings)
       /\ SavingsPositive => ~WithinStake

\* C19, amended: the savings is never negative; it is exactly 0 whenever
\* creditsUsed is at most the computed cap stakedAmount / 0.05 * 1.2, and
\* positive only above that cap; for a stake of whole dollars the computed
\* cap is 24 * stakedAmount exactly.
C19_SavingsZeroWithinComputedStake ==
    roi64.returned
    => /\ ~roi64.value.savings.neg
       /\ WithinComputedStake => F64IsZero(roi64.value.savings)
       /\ SavingsPositive => ~WithinComputedStake
       /\ roi64.stakedAmount % 100 = 0
             => (WithinComputedStake <=> WithinStake)

\* the call with 0.01 dollars staked and 0.24 credits used has returned: the
\* computed cap is below 0.24 and the savings is a positive residue
C19_Witness ==
    /\ roi64.returned
    /\ roi64.stakedAmount = 1
    /\ roi64.creditsUsed = 24
    /\ WithinStake
    /\ ~WithinComputedStake
    /\ SavingsPositive

(***************************************************************************)
(* CLAIMS about agent_executions                                           *)
(***************************************************************************)

\* the agents named by an INSERT that the policy and the foreign keys let
\* through: the agents for which an execution has been recorded
AgentsExecuted ==
    {executionInserts[i].row.agent_id : i \in
        {j \in 1..Len(executionInserts) :
            /\ ExecutionsInsertPolicy(executionInserts[j].uid)
            /\ executionInserts[j].row.agent_id \in dbAgents}}

\* C11: after any sequence of inserts into agent_executions, every agent
\* for which an execution was inserted has totalRuns equal to the number of
\* its execution rows and successRate equal to 100 times its successful
\* executions divided by its executions.
C11_MetricsFollowExecutions ==
    \A a \in AgentsExecuted :
        LET rows == ExecutionsOf(dbAgentExecutions, a)
        IN  /\ Len(rows) > 0
            /\ dbAgentMetrics[a].totalRuns = Len(rows)
            /\ dbAgentMetrics[a].successRate =
                  Fraction(100 * CountSuccess(rows), Len(rows))

(***************************************************************************)
(* CLAIMS about the realtime subscriptions                                 *)
(***************************************************************************)

\* the fetch whose list the callback was given last
LastDelivered == subscription.delivered[Len(subscription.delivered)]

\* every fetch started so far has resolved
AllResolved ==
    \A i \in DOMAIN subscription.refetches :
        subscription.refetches[i].stage = "done"

\* C16: when several change notifications arrive and their fetches
\* complete in any order, the list most recently passed to the callback is
\* the result of the most recently issued fetch, and the subscriber never
\* holds an older snapshot than one it was already given.
C16_LatestRefetchWins ==
    /\ (AllResolved /\ subscription.delivered # <<>>)
          => LastDelivered.refetch = Len(subscription.refetches)
    /\ \A i, j \in DOMAIN subscription.delivered :
          i < j => subscription.delivered[i].snapshot
                      <= subscription.delivered[j].snapshot

(***************************************************************************)
(* CLAIMS: frames                                                          *)
(***************************************************************************)

DashboardFrame == GenerateFrameMetadata("dashboard")

\* C21: handleFrameAction always returns a frame: ('launch', 1) the launch
\* frame, ('launch', 2) the stake frame, any other 'launch' button the
\* dashboard frame without a message; 'stake' with button 1, 2 or 3 the
\* dashboard frame with a message naming 20, 50 or 100 dollars; 'bounty' and
\* every unknown action the dashboard frame; and generateFrameMetadata
\* returns the dashboard metadata for any type other than 'launch', 'stake'
\* and 'bounty'.
C21_FrameActionTotal ==
    /\ frameCall.fn = "handleFrameAction" =>
        /\ frameCall.value.frame # NoFrame
        /\ frameCall.action = "launch" /\ frameCall.buttonIndex = 1
              => frameCall.value.frame.image = "/frames/launch-agent.png"
        /\ frameCall.action = "launch" /\ frameCall.buttonIndex = 2
              => frameCall.value.frame.image = "/frames/stake-credits.png"
        /\ frameCall.action = "launch" /\ frameCall.buttonIndex \notin {1, 2}
              => /\ frameCall.value.frame = DashboardFrame
                 /\ frameCall.value.message = NoMessage
        /\ \A n \in 1..3 :
              frameCall.action = "stake" /\ frameCall.buttonIndex = n
              => /\ frameCall.value.frame = DashboardFrame
                 /\ frameCall.value.message
                        = <<"Staking $", <<"20", "50", "100">>[n],
                            " for credits...">>
        /\ frameCall.action \notin {"launch", "stake"}
              => frameCall.value.frame = DashboardFrame
    /\ frameCall.fn = "generateFrameMetadata"
          /\ frameCall.action \notin {"launch", "stake", "bounty"}
          => /\ frameCall.value.frame = DashboardFrame
             /\ frameCall.value.frame.image = "/frames/dashboard.png"

\* handleFrameAction('stake', 3) has returned the dashboard frame and the
\* message naming 100 dollars
C21_Witness ==
    /\ frameCall.fn = "handleFrameAction"
    /\ frameCall.action = "stake"
    /\ frameCall.buttonIndex = 3
    /\ frameCall.value.frame.image = "/frames/dashboard.png"
    /\ frameCall.value.message = <<"Staking $", "100", " for credits...">>

\* the screen a frame belongs to
ScreenOf(frame) == CHOOSE t \in FrameTypes : GenerateFrameMetadata(t) = frame

\* C24: in FrameContainer the action type passed to handleFrameAction on a
\* button click always matches the frame displayed when the button was
\* clicked, also after a click has replaced the displayed frame with that of
\* another screen.
C24_ActionMatchesDisplayedFrame ==
    frameContainer.click.action # NULL
    => frameContainer.click.action = ScreenOf(frameContainer.click.displayed)

(***************************************************************************)
(* CLAIMS: analytics dashboard                                             *)
(***************************************************************************)

\* the call of loadAnalytics started last has not reached its finally block
LatestInFlight ==
    /\ dashboard.loads # <<>>
    /\ dashboard.loads[Len(dashboard.loads)].stage # "done"

\* C25: in AnalyticsDashboard isLoading eventually becomes false after
\* mount in every case (the transaction fetch succeeds, it fails, no user is
\* connected), and it is never false while the most recently started
\* loadAnalytics call is still in flight.
C25_LoadingEnds ==
    /\ dashboard.mounted ~> ~dashboard.isLoading
    /\ [](LatestInFlight => dashboard.isLoading)

\* a Number that is neither Infinity nor NaN
F64IsFinite(x) == x.kind = "finite"

\* C29: every call of calculateStakingROI made by the analytics dashboard
\* yields well-defined results: stakingROI and breakEvenPoint come from no
\* division by zero, also for a stakedAmount of 0 and for transactions
\* without a 'spend'.
C29_DashboardROIWellDefined ==
    dashboard.roi.called
    => /\ F64IsFinite(dashboard.roi.value.stakingROI)
       /\ F64IsFinite(dashboard.roi.value.breakEvenPoint)
====
